---- MODULE Spec2Model ----
(***************************************************************************)
(* GEN_STEP: record keeper for wastewater-treatment stations.  The model   *)
(* covers the canonical ordering engine (get_ouvrages_procede in           *)
(* gen_station.py, main.py and utils.py), the equipment-state repository   *)
(* (charger_etats_station / sauvegarder_etats_station in utils.py,         *)
(* get_station_etat in diagramme_flux.py) and the console workflows of     *)
(* main.py and create_station.py that use them.                            *)
(*                                                                         *)
(* JSON data is modelled as follows.  A scalar is a TLA+ string; the token *)
(* JsonNull stands for any scalar that is not a Python str.  A JSON object *)
(* (Python dict, insertion ordered) whose keys are data is a sequence of   *)
(* <<key, value>> pairs; a JSON object with a fixed vocabulary of optional *)
(* fields (a snapshot, a station record) is a TLA+ record whose DOMAIN is  *)
(* the set of fields present.  A catalog value carries its Python type in  *)
(* the field t ("list", "dict", "str", "autre") and its content in v.      *)
(***************************************************************************)
EXTENDS Integers, Sequences, FiniteSets, TLC

VARIABLES
    types_data,     \* data/types.json: the process-type catalog
    type_procede,   \* the process-type identifier handed to get_ouvrages_procede
    appel,          \* the last call made and what it returned
    etat_ouvrages,  \* the equipment-state map (name -> state) handed to a call
    stations_json,  \* data/stations.json: the list of station records
    etat_station_json,  \* data/etat_station.json: the equipment-state store
    horloge,        \* the wall clock: [jour, heure]
    stations_mtime, \* the modification time of data/stations.json
    stations_cache, \* utils._STATIONS_CACHE and _STATIONS_LAST_MODIFIED
    programme,      \* "menu": the menu loop of main() runs; "arrete": no process
    prochain_id,    \* the number of station ids drawn so far, plus one
    supprimees      \* history: the ids whose deletion the operator confirmed

vars == <<types_data, type_procede, appel, etat_ouvrages, stations_json,
          etat_station_json, horloge, stations_mtime, stations_cache, programme,
          prochain_id, supprimees>>

\* the process of main.py and its history
processus == <<stations_mtime, stations_cache, programme, prochain_id, supprimees>>

\* the files and the clock
fichiers == <<stations_json, etat_station_json, horloge>>

\* what the calls of SpecOrdre leave alone
horsOrdre == <<etat_ouvrages, fichiers, processus>>

(***************************************************************************)
(* Scalars                                                                 *)
(***************************************************************************)
JsonNull == "<null>"
Blanc == " "

\* isinstance(x, str)
IsStr(x) == x # JsonNull

\* str.strip() on the strings of the model: the only string with
\* surrounding whitespace is the blank one
Strip(s) == IF s = Blanc THEN "" ELSE s

(***************************************************************************)
(* Insertion-ordered dictionaries                                          *)
(***************************************************************************)
\* list(d.keys())
Cles(d) == [i \in 1..Len(d) |-> d[i][1]]

\* k in d
Dans(d, k) == \E i \in 1..Len(d) : d[i][1] = k

\* d[k]
Val(d, k) == d[CHOOSE i \in 1..Len(d) : d[i][1] = k][2]

\* d.get(k, defaut)
Get(d, k, defaut) == IF Dans(d, k) THEN Val(d, k) ELSE defaut

\* d[k] = v on an OrderedDict: an existing key keeps its position
Affecter(d, k, v) ==
    IF Dans(d, k)
    THEN [i \in 1..Len(d) |-> IF d[i][1] = k THEN <<k, v>> ELSE d[i]]
    ELSE Append(d, <<k, v>>)

\* del d[k]
Supprimer(d, k) == SelectSeq(d, LAMBDA p : p[1] # k)

\* set(seq)
Elements(s) == {s[i] : i \in 1..Len(s)}

SansDoublon(s) == \A i, j \in 1..Len(s) : s[i] = s[j] => i = j

Renverse(s) == [i \in 1..Len(s) |-> s[Len(s) + 1 - i]]

(***************************************************************************)
(* The process-type catalog                                                *)
(***************************************************************************)
Liste(items) == [t |-> "list", v |-> items]
Objet(paires) == [t |-> "dict", v |-> paires]
DictVide == Objet(<<>>)
ListeVide == Liste(<<>>)

\* What a get_ouvrages_procede returns: None, or an OrderedDict name -> state
Aucun == [nul |-> TRUE, d |-> <<>>]
Dict(d) == [nul |-> FALSE, d |-> d]

(***************************************************************************)
(* gen_station.get_ouvrages_procede(procedure_type, types_data)            *)
(***************************************************************************)
RECURSIVE GenAjouter(_, _, _)
GenAjouter(etat_initial, items, nouveaux_seulement) ==
    IF items = <<>> THEN etat_initial
    ELSE LET item == Head(items)
             retenu == /\ IsStr(item)
                       /\ Strip(item) # ""
                       /\ (nouveaux_seulement => ~Dans(etat_initial, Strip(item)))
         IN  GenAjouter(IF retenu
                        THEN Affecter(etat_initial, Strip(item), "en_service")
                        ELSE etat_initial,
                        Tail(items), nouveaux_seulement)

\* one "if isinstance(stage, list): for item in stage: ..." block
GenEtape(etat_initial, etape, nouveaux_seulement) ==
    IF etape.t = "list"
    THEN GenAjouter(etat_initial, etape.v, nouveaux_seulement)
    ELSE etat_initial

\* the same with the tertiary stage read before the primary one
GenOuvragesProcedeTertiaireAvant(procedure_type, catalogue) ==
    IF procedure_type = "" \/ ~Dans(catalogue, procedure_type) THEN Dict(<<>>)
    ELSE LET procedure_data == Val(catalogue, procedure_type).v
             fe == Get(procedure_data, "filiere_eau", DictVide)
             e1 == GenEtape(<<>>, Get(fe.v, "pretraitement", ListeVide), FALSE)
             e2 == GenEtape(e1, Get(procedure_data, "traitement_tertiaire", ListeVide), TRUE)
             e3 == GenEtape(e2, Get(fe.v, "traitement_primaire", ListeVide), FALSE)
             e4 == GenEtape(e3, Get(fe.v, "traitement_secondaire", ListeVide), FALSE)
             e5 == GenEtape(e4, Get(procedure_data, "filiere_boue", ListeVide), TRUE)
         IN  Dict(e5)

GenOuvragesProcede(procedure_type, catalogue) ==
    IF procedure_type = "" THEN Dict(<<>>)
    ELSE IF ~Dans(catalogue, procedure_type) THEN Dict(<<>>)
    ELSE IF Val(catalogue, procedure_type).t # "dict" THEN Dict(<<>>)
    ELSE LET procedure_data == Val(catalogue, procedure_type).v
             fe == Get(procedure_data, "filiere_eau", DictVide)
         IN  IF fe.t # "dict"
             THEN Dict(<<>>)   \* AttributeError on .get, caught: OrderedDict()
             ELSE
             LET e1 == GenEtape(<<>>, Get(fe.v, "pretraitement", ListeVide), FALSE)
                 e2 == GenEtape(e1, Get(fe.v, "traitement_primaire", ListeVide), FALSE)
                 e3 == GenEtape(e2, Get(fe.v, "traitement_secondaire", ListeVide), FALSE)
                 e4 == GenEtape(e3, Get(procedure_data, "traitement_tertiaire", ListeVide), TRUE)
                 e5 == GenEtape(e4, Get(procedure_data, "filiere_boue", ListeVide), TRUE)
             IN  Dict(e5)

(***************************************************************************)
(* main.get_ouvrages_procede(type_procede)                                 *)
(***************************************************************************)
RECURSIVE MainAjouter(_, _)
MainAjouter(ouvrages_ordonnes, items) ==
    IF items = <<>> THEN ouvrages_ordonnes
    ELSE LET ouvrage == Head(items)
         IN  MainAjouter(IF IsStr(ouvrage) /\ Strip(ouvrage) # ""
                         THEN Affecter(ouvrages_ordonnes, ouvrage, "en_service")
                         ELSE ouvrages_ordonnes,
                         Tail(items))

\* one "if isinstance(x, list): ... elif isinstance(x, str) and x.strip(): ..."
MainEtape(ouvrages_ordonnes, etape) ==
    CASE etape.t = "list" -> MainAjouter(ouvrages_ordonnes, etape.v)
      [] etape.t = "str" /\ Strip(etape.v[1]) # "" ->
             Affecter(ouvrages_ordonnes, etape.v[1], "en_service")
      [] OTHER -> ouvrages_ordonnes

\* "'filiere_eau' in procede_info and k in procede_info['filiere_eau']"
DansFiliereEau(procede_info, k) ==
    /\ Dans(procede_info, "filiere_eau")
    /\ Val(procede_info, "filiere_eau").t = "dict"
    /\ Dans(Val(procede_info, "filiere_eau").v, k)

MainEtapeEau(ouvrages_ordonnes, procede_info, k) ==
    IF DansFiliereEau(procede_info, k)
    THEN MainEtape(ouvrages_ordonnes, Val(Val(procede_info, "filiere_eau").v, k))
    ELSE ouvrages_ordonnes

MainEtapeRacine(ouvrages_ordonnes, procede_info, k) ==
    IF Dans(procede_info, k)
    THEN MainEtape(ouvrages_ordonnes, Val(procede_info, k))
    ELSE ouvrages_ordonnes

MainOuvragesProcede(type_demande, catalogue) ==
    IF ~Dans(catalogue, type_demande) THEN Aucun
    ELSE IF Val(catalogue, type_demande).v = <<>> THEN Aucun   \* "if not procede_info"
    ELSE LET procede_info == Val(catalogue, type_demande).v
             e1 == MainEtapeEau(<<>>, procede_info, "pretraitement")
             e2 == MainEtapeEau(e1, procede_info, "traitement_primaire")
             e3 == MainEtapeEau(e2, procede_info, "traitement_secondaire")
             e4 == MainEtapeRacine(e3, procede_info, "traitement_tertiaire")
             e5 == MainEtapeRacine(e4, procede_info, "filiere_boue")
         IN  Dict(e5)

(***************************************************************************)
(* utils.get_ouvrages_procede(type_procede)                                *)
(***************************************************************************)
\* normalize(s): lower-case, combining diacritics removed.  The identifiers
\* of the model that are not already in that form:
Normalize(s) ==
    IF s \in {"BOUES_ACTIVEES", "boues_activées"} THEN "boues_activees" ELSE s

\* the first catalog key equal to the request after normalisation, "" if none
UtilsProcedeKey(type_demande, catalogue) ==
    LET trouves == {i \in 1..Len(catalogue) :
                        Normalize(catalogue[i][1]) = Normalize(type_demande)}
    IN  IF trouves = {} THEN ""
        ELSE catalogue[CHOOSE i \in trouves : \A j \in trouves : i <= j][1]

\* ajouter_ouvrages(source): a source that is not a list reaches the elif,
\* which reads the unbound local "ouvrage": the NameError is caught by the
\* function's own except clause, which returns None
UtilsAjouter(r, source) ==
    IF r.nul THEN r
    ELSE IF source.t = "list" THEN Dict(MainAjouter(r.d, source.v))
    ELSE Aucun

UtilsEtapeEau(r, procede_info, k) ==
    IF ~r.nul /\ DansFiliereEau(procede_info, k)
    THEN UtilsAjouter(r, Val(Val(procede_info, "filiere_eau").v, k))
    ELSE r

UtilsOuvragesProcede(type_demande, catalogue) ==
    LET procede_key == UtilsProcedeKey(type_demande, catalogue)
    IN  IF procede_key = "" THEN Aucun
        ELSE LET procede_info == Val(catalogue, procede_key).v
                 e1 == UtilsEtapeEau(Dict(<<>>), procede_info, "pretraitement")
                 e2 == UtilsEtapeEau(e1, procede_info, "traitement_primaire")
                 e3 == UtilsEtapeEau(e2, procede_info, "traitement_secondaire")
                 e4 == UtilsEtapeEau(e3, procede_info, "traitement_tertiaire")
                 e5 == IF ~e4.nul /\ Dans(procede_info, "filiere_boue")
                       THEN UtilsAjouter(e4, Val(procede_info, "filiere_boue"))
                       ELSE e4
             IN  e5

(***************************************************************************)
(* The operator's menu of states (main.py, create_station.py)              *)
(***************************************************************************)
\* the dictionary "etats" of the menus: choice -> state
Menu ==
    << <<"1", "en_service">>, <<"2", "en_panne">>, <<"3", "en_dysfonctionnement">>,
       <<"4", "en_maintenance">>, <<"5", "hors_service">>, <<"6", "inexistant">>,
       <<"7", "arret_volontaire">>, <<"8", "surcharge_sature">>,
       <<"9", "nouvel_ouvrage">> >>

\* the answers that end the prompt of one equipment: "10" (next) or a choice
\* of the menu; any other answer is asked again
Reponses == {"10"} \cup Elements(Cles(Menu))

\* the display order of afficher_et_modifier_etats and modifier_etats_ouvrages
\* when the process type has an order: the names of the order that the map
\* has, then the other names of the map
OrdreAffichage(ouvrages_ordre, etats) ==
    LET connus == SelectSeq(Cles(ouvrages_ordre), LAMBDA o : Dans(etats, o))
    IN  connus \o SelectSeq(Cles(etats), LAMBDA o : o \notin Elements(connus))

(***************************************************************************)
(* main.modifier_etats_ouvrages(etat_ouvrages, nom_station, type_procede)  *)
(* type_procede = "" is the default None; choix[i] is the operator's       *)
(* answer for the i-th equipment displayed.                                *)
(***************************************************************************)
\* orphans inserted at the head of the list instead of appended
ModifierOuvragesAAfficherEnTete(etats, type_demande, catalogue) ==
    LET ouvrages_ordre == MainOuvragesProcede(type_demande, catalogue)
    IN  IF type_demande # "" /\ ~ouvrages_ordre.nul /\ ouvrages_ordre.d # <<>>
        THEN LET connus == SelectSeq(Cles(ouvrages_ordre.d), LAMBDA o : Dans(etats, o))
             IN  Renverse(SelectSeq(Cles(etats), LAMBDA o : o \notin Elements(connus)))
                 \o connus
        ELSE Cles(etats)

ModifierOuvragesAAfficher(etats, type_demande, catalogue) ==
    IF type_demande # ""
    THEN LET ouvrages_ordre == MainOuvragesProcede(type_demande, catalogue)
         IN  IF ~ouvrages_ordre.nul /\ ouvrages_ordre.d # <<>>
             THEN OrdreAffichage(ouvrages_ordre.d, etats)
             ELSE Cles(etats)
    ELSE Cles(etats)

\* returns the map as the function leaves it (cleared, then refilled in the
\* display order) and the flag it returns
ModifierEtatsOuvrages(etats, type_demande, catalogue, choix) ==
    LET ouvrages_a_afficher == ModifierOuvragesAAfficher(etats, type_demande, catalogue)
        nouveaux_etats ==
            [i \in 1..Len(ouvrages_a_afficher) |->
                LET nom == ouvrages_a_afficher[i]
                IN  IF Dans(Menu, choix[i]) THEN <<nom, Val(Menu, choix[i])>>
                    ELSE <<nom, Val(etats, nom)>>]
    IN  [etat_ouvrages |-> nouveaux_etats,
         modifications |-> \E i \in 1..Len(ouvrages_a_afficher) : Dans(Menu, choix[i])]

(***************************************************************************)
(* main.afficher_et_modifier_etats(etat_ouvrages, nom_station, type)       *)
(* etats is what the caller passes: None or a map                          *)
(***************************************************************************)
AfficherOuvragesAAfficher(etats_mis_a_jour, type_demande, catalogue) ==
    LET ouvrages_ordre == IF type_demande # ""
                          THEN MainOuvragesProcede(type_demande, catalogue)
                          ELSE Aucun
        ouvrages_a_afficher ==
            IF ~ouvrages_ordre.nul /\ ouvrages_ordre.d # <<>>
            THEN OrdreAffichage(ouvrages_ordre.d, etats_mis_a_jour)
            ELSE <<>>
    IN  IF ouvrages_a_afficher = <<>> THEN Cles(etats_mis_a_jour)
        ELSE ouvrages_a_afficher

RECURSIVE AfficherSaisie(_, _, _)
AfficherSaisie(etats_mis_a_jour, ouvrages_a_afficher, choix) ==
    IF ouvrages_a_afficher = <<>> THEN etats_mis_a_jour
    ELSE AfficherSaisie(
            IF Dans(Menu, Head(choix))
            THEN Affecter(etats_mis_a_jour, Head(ouvrages_a_afficher), Val(Menu, Head(choix)))
            ELSE etats_mis_a_jour,
            Tail(ouvrages_a_afficher), Tail(choix))

AfficherEtModifierEtats(etats, type_demande, catalogue, choix) ==
    IF etats.nul \/ etats.d = <<>> THEN Aucun
    ELSE Dict(AfficherSaisie(etats.d,
                             AfficherOuvragesAAfficher(etats.d, type_demande, catalogue),
                             choix))

(***************************************************************************)
(* diagramme_flux.generer_diagramme_station, lines 1214-1239: the state    *)
(* map of the chosen update merged into the order of the process type      *)
(***************************************************************************)
RECURSIVE DiagrammeMettreAJour(_, _)
DiagrammeMettreAJour(etats_ouvrages, etats) ==
    IF etats = <<>> THEN etats_ouvrages
    ELSE LET nom_ouvrage == Head(etats)[1]
         IN  DiagrammeMettreAJour(
                IF Dans(etats_ouvrages, nom_ouvrage)
                THEN Affecter(etats_ouvrages, nom_ouvrage, Head(etats)[2])
                ELSE etats_ouvrages,
                Tail(etats))

\* erreur: the ValueError of an empty order (re-raised and reported by the
\* workflow); ouvrages: the list handed to parser_ouvrages
DiagrammeOuvrages(etats, type_demande, catalogue) ==
    LET etats_ouvrages == GenOuvragesProcede(type_demande, catalogue).d
        fusion == DiagrammeMettreAJour(etats_ouvrages, etats)
    IN  IF etats_ouvrages = <<>>
        THEN [erreur |-> TRUE, ouvrages |-> <<>>]
        ELSE [erreur |-> FALSE,
              ouvrages |-> [i \in 1..Len(fusion) |->
                               [id |-> i, nom |-> fusion[i][1], etat |-> fusion[i][2]]]]

(***************************************************************************)
(* Dates. A formatted date is the sequence of its fields, compared as the  *)
(* strings are: field by field, a prefix before its extensions.            *)
(* "%Y-%m-%d" gives <<jour>>, "%Y-%m-%d %H:%M:%S" gives <<jour, heure>>,    *)
(* the empty string is <<>>.                                               *)
(***************************************************************************)
FormatDate(h) == <<h.jour>>
FormatDateHeure(h) == <<h.jour, h.heure>>

RECURSIVE Avant(_, _)
Avant(a, b) ==
    IF b = <<>> THEN FALSE
    ELSE IF a = <<>> THEN TRUE
    ELSE IF a[1] # b[1] THEN a[1] < b[1]
    ELSE Avant(Tail(a), Tail(b))

\* max(s, key=...): the index of the first element whose key none exceeds;
\* cles[i] is the key of s[i]
MaxPremier(cles) ==
    CHOOSE i \in 1..Len(cles) :
        /\ \A j \in 1..Len(cles) : ~Avant(cles[i], cles[j])
        /\ \A j \in 1..(i - 1) : cles[j] # cles[i]

\* picks the last of the elements with the greatest key
MaxDernier(cles) ==
    CHOOSE i \in 1..Len(cles) :
        /\ \A j \in 1..Len(cles) : ~Avant(cles[i], cles[j])
        /\ \A j \in (i + 1)..Len(cles) : cles[j] # cles[i]

SansIndice(s, i) == SubSeq(s, 1, i - 1) \o SubSeq(s, i + 1, Len(s))

\* list.sort(key=..., reverse=True) on pairs <<key, element>>: greatest key
\* first, elements of equal keys in their original order (the sort is stable)
RECURSIVE TriDecroissant(_)
TriDecroissant(paires) ==
    IF paires = <<>> THEN <<>>
    ELSE LET i == MaxPremier([k \in 1..Len(paires) |-> paires[k][1]])
         IN  <<paires[i]>> \o TriDecroissant(SansIndice(paires, i))

(***************************************************************************)
(* Snapshots and station records are JSON objects with fixed field names:  *)
(* records whose domain is the set of fields present.                      *)
(***************************************************************************)
A(r, champ) == champ \in DOMAIN r
Avec(r, champ, v) == [c \in DOMAIN r \cup {champ} |-> IF c = champ THEN v ELSE r[c]]
Sans(r, champ) == [c \in DOMAIN r \ {champ} |-> r[c]]
Lire(r, champ, defaut) == IF A(r, champ) THEN r[champ] ELSE defaut
Restreint(r, champs) == [c \in DOMAIN r \cap champs |-> r[c]]

\* a snapshot stored directly under a station id: the object, in a 1-tuple
Instantane(etat) == [t |-> "dict", v |-> <<etat>>]
FichierAbsent == [t |-> "absent", v |-> <<>>]

(***************************************************************************)
(* utils.charger_etats_station()                                           *)
(***************************************************************************)
RECURSIVE ChargerListe(_, _)
ChargerListe(station_id, items) ==
    IF items = <<>> THEN <<>>
    ELSE LET item == Head(items)
         IN  (IF A(item, station_id) /\ item[station_id].t = "list"
              THEN item[station_id].v
              ELSE <<item>>) \o ChargerListe(station_id, Tail(items))

\* the list kept for a key of the file, empty when the key is skipped
ChargerStation(station_id, data) ==
    IF data.t = "list" THEN ChargerListe(station_id, data.v)
    ELSE IF data.t = "dict"
         THEN IF \/ A(data.v[1], "etat_ouvrages")
                 \/ A(data.v[1], "date")
                 \/ A(data.v[1], "date_maj")
              THEN <<data.v[1]>>
              ELSE <<>>
    ELSE <<>>

ChargerNettoyer(etat, station_id, maintenant) ==
    LET e1 == IF A(etat, "etat_ouvrages") THEN etat ELSE Avec(etat, "etat_ouvrages", <<>>)
        e2 == IF A(e1, "station_id") THEN e1 ELSE Avec(e1, "station_id", station_id)
    IN  IF A(e2, "date_maj") THEN e2
        ELSE Avec(e2, "date_maj", Lire(e2, "date", FormatDateHeure(maintenant)))

\* the dictionary returned: station id -> list of snapshots
ChargerEtatsStation(fichier, maintenant) ==
    IF fichier.t # "dict" THEN <<>>
    ELSE LET result == SelectSeq(
                 [i \in 1..Len(fichier.v) |->
                     <<fichier.v[i][1], ChargerStation(fichier.v[i][1], fichier.v[i][2])>>],
                 LAMBDA p : p[2] # <<>>)
         IN  [i \in 1..Len(result) |->
                 <<result[i][1],
                   [k \in 1..Len(result[i][2]) |->
                       ChargerNettoyer(result[i][2][k], result[i][1], maintenant)]>>]

\* the element of a one-element set; {F(x) : x \in {v}} gives F(v) with v
\* evaluated once
Une(S) == CHOOSE x \in S : TRUE

(***************************************************************************)
(* utils.get_station_by_id(station_id) on the station list that            *)
(* get_stations_list() returns; Aucune when no record has the id           *)
(***************************************************************************)
Aucune == [trouve |-> FALSE]
GetStationById(station_id, stations) ==
    LET avec_id == SelectSeq(stations, LAMBDA st : Lire(st, "id", JsonNull) = station_id)
    IN  IF avec_id = <<>> THEN Aucune
        ELSE [trouve |-> TRUE, station |-> avec_id[1]]

(***************************************************************************)
(* utils.sauvegarder_etats_station(etats_station, station_id)              *)
(***************************************************************************)
\* first pass, lines 256-305: the fields kept, the defaults of an empty map
SauvegarderPreparer(etat, station_id, stations, catalogue, maintenant) ==
    LET copie == Restreint(etat, {"station_id", "date", "date_maj", "etat_ouvrages"})
        station == GetStationById(station_id, stations)
        ouvrages_par_defaut ==
            IF station.trouve /\ A(station.station, "type_procede")
            THEN UtilsOuvragesProcede(station.station.type_procede, catalogue)
            ELSE Aucun
        e1 == IF A(copie, "etat_ouvrages") /\ copie.etat_ouvrages # <<>>
              THEN copie
              ELSE Avec(copie, "etat_ouvrages",
                        Une({IF ~defaut.nul THEN defaut.d ELSE <<>> :
                             defaut \in {ouvrages_par_defaut}}))
        e2 == Avec(e1, "station_id", Lire(copie, "station_id", station_id))
        e3 == Avec(e2, "date_maj", Lire(copie, "date_maj", FormatDateHeure(maintenant)))
    IN  Sans(e3, "date")

\* second pass, lines 316-341: three fields, the string states only
SauvegarderNettoyer(etat, station_id, maintenant) ==
    [station_id |-> Lire(etat, "station_id", station_id),
     date_maj |-> Lire(etat, "date_maj", FormatDateHeure(maintenant)),
     etat_ouvrages |-> SelectSeq(Lire(etat, "etat_ouvrages", <<>>),
                                 LAMBDA p : IsStr(p[1]) /\ IsStr(p[2]))]

\* the file as the call leaves it (the write succeeding) and the value returned
SauvegarderEtatsStation(etats_station, station_id, fichier, stations, catalogue, maintenant) ==
    IF station_id = "" THEN [ok |-> FALSE, fichier |-> fichier]
    ELSE LET etats_propres ==
                 [i \in 1..Len(etats_station) |->
                     Une({SauvegarderNettoyer(etat_propre, station_id, maintenant) :
                          etat_propre \in {SauvegarderPreparer(etats_station[i], station_id,
                                               stations, catalogue, maintenant)}})]
             ecrit ==
                 Une({Affecter([i \in 1..Len(etats_data) |->
                                   <<etats_data[i][1], Liste(etats_data[i][2])>>],
                               station_id, Liste(etats_propres)) :
                      etats_data \in {ChargerEtatsStation(fichier, maintenant)}})
         IN  [ok |-> TRUE, fichier |-> Objet(ecrit)]

(***************************************************************************)
(* diagramme_flux.get_station_etat(station_id)                             *)
(***************************************************************************)
PasTrouve == [trouve |-> FALSE]

\* the sort key of a stored snapshot
CleDeTri(etat) == Lire(etat, "date_maj", Lire(etat, "date", <<>>))

GetStationEtat(station_id, fichier) ==
    IF fichier.t # "dict" THEN PasTrouve
    ELSE LET etats_station == Get(fichier.v, station_id, ListeVide)
         IN  IF etats_station.t # "list" THEN PasTrouve
             ELSE IF etats_station.v = <<>> THEN PasTrouve
             ELSE LET tries == TriDecroissant(
                          [i \in 1..Len(etats_station.v) |->
                              <<CleDeTri(etats_station.v[i]), etats_station.v[i]>>])
                      dernier_etat == tries[1][2]
                  IN  [trouve |-> TRUE,
                       etat_ouvrages |-> Lire(dernier_etat, "etat_ouvrages", <<>>),
                       date_maj |-> Lire(dernier_etat, "date_maj", JsonNull)]

(***************************************************************************)
(* main.update_ouvrage_state_new(), the station chosen and the operator's  *)
(* answers given. The call of line 225 passes one argument to              *)
(* sauvegarder_etats_station(etats_station, station_id): it raises         *)
(* TypeError before the function runs, and nothing is written.             *)
(***************************************************************************)
\* the index, in the loaded history, of the snapshot of line 190
DernierEtat(etats_station) ==
    MaxPremier([i \in 1..Len(etats_station) |-> Lire(etats_station[i], "date_maj", <<>>)])

\* the map passed to afficher_et_modifier_etats (line 202)
EtatsAModifier(station, fichier, catalogue, maintenant) ==
    LET etats_station ==
            Get(ChargerEtatsStation(fichier, maintenant), station.id, <<>>)
        etat_precedent ==
            IF etats_station = <<>> THEN <<>>
            ELSE Lire(etats_station[DernierEtat(etats_station)], "etat_ouvrages", <<>>)
    IN  IF etat_precedent # <<>> THEN Dict(etat_precedent)
        ELSE MainOuvragesProcede(station.type_procede, catalogue)

UpdateOuvrageStateNew(station, choix, fichier, catalogue, maintenant) ==
    LET etats_station ==
            Get(ChargerEtatsStation(fichier, maintenant), station.id, <<>>)
        nouveaux_etats ==
            AfficherEtModifierEtats(EtatsAModifier(station, fichier, catalogue, maintenant),
                                    station.type_procede, catalogue, choix)
    IN  IF ~A(station, "type_procede") \/ station.type_procede = ""
        THEN [issue |-> "retour", etats_station |-> etats_station]
        ELSE IF nouveaux_etats.nul \/ nouveaux_etats.d = <<>>
        THEN [issue |-> "retour", etats_station |-> etats_station]
        ELSE [issue |-> "TypeError",
              etats_station |->
                  Append(etats_station,
                         [etat_ouvrages |-> nouveaux_etats.d,
                          date_maj |-> FormatDateHeure(maintenant)])]

(***************************************************************************)
(* utils.get_stations_list() and update_stations_cache(), the file being   *)
(* a list: the list returned and the cache left                            *)
(***************************************************************************)
\* the cache returned whenever it is filled, the modification time not read
GetStationsListSansMtime(cache, fichier, mtime) ==
    IF cache.charge THEN cache
    ELSE [charge |-> TRUE, liste |-> fichier, mtime |-> mtime]

GetStationsList(cache, fichier, mtime) ==
    IF cache.charge /\ mtime <= cache.mtime THEN cache
    ELSE [charge |-> TRUE, liste |-> fichier, mtime |-> mtime]

UpdateStationsCache(fichier, mtime) ==
    [charge |-> TRUE, liste |-> fichier, mtime |-> mtime]

(***************************************************************************)
(* create_station.customiser_ouvrages(etats_ouvrages, type_procede): the   *)
(* display order is computed as in modifier_etats_ouvrages, the map keeps  *)
(* its own order                                                           *)
(***************************************************************************)
CustomiserOuvrages(etats, type_demande, catalogue, choix) ==
    IF etats = <<>> THEN etats
    ELSE AfficherSaisie(etats, ModifierOuvragesAAfficher(etats, type_demande, catalogue),
                        choix)

(***************************************************************************)
(* create_station.create_station(), steps 6 to 11, the prompts answered:   *)
(* the station id returned (JsonNull for None) and the two files           *)
(***************************************************************************)
\* the same with the initial snapshot never stored (lines 456-469 left out)
CreateStationSansEtat(nom, procedure_type, choix, station_id, stations, etats, catalogue, maintenant) ==
    LET etat_initial == GenOuvragesProcede(procedure_type, catalogue).d
        station_data == [id |-> station_id, nom |-> nom,
                         type_procede |-> procedure_type,
                         date_creation |-> FormatDate(maintenant)]
    IN  IF etat_initial = <<>>
        THEN [res |-> JsonNull, stations |-> stations, etats |-> etats]
        ELSE [res |-> station_id,
              stations |-> Append(stations, station_data),
              etats |-> etats]

CreateStation(nom, procedure_type, choix, station_id, stations, etats, catalogue, maintenant) ==
    LET etat_initial == GenOuvragesProcede(procedure_type, catalogue).d
        station_data == [id |-> station_id, nom |-> nom,
                         type_procede |-> procedure_type,
                         date_creation |-> FormatDate(maintenant)]
        etat_data == [station_id |-> station_id, date |-> FormatDate(maintenant),
                      etat_ouvrages |->
                          CustomiserOuvrages(etat_initial, procedure_type, catalogue, choix)]
        etats_data == IF etats.t = "dict" THEN etats.v ELSE <<>>
    IN  IF etat_initial = <<>>
        THEN [res |-> JsonNull, stations |-> stations, etats |-> etats]
        ELSE [res |-> station_id,
              stations |-> Append(stations, station_data),
              etats |-> Objet(Affecter(etats_data, station_id, Liste(<<etat_data>>)))]

(***************************************************************************)
(* main.delete_station(), the station chosen and the deletion confirmed    *)
(***************************************************************************)
\* the key of the station left in the file
DeleteEtatsOublie(etats, station_id) == etats

\* lines 664-668
DeleteEtats(etats, station_id) ==
    IF etats.t = "dict" /\ Dans(etats.v, station_id)
    THEN Objet(Supprimer(etats.v, station_id))
    ELSE etats

DeleteStation(station, stations, etats) ==
    [stations |-> SelectSeq(stations, LAMBDA st : st.id # station.id),
     etats |-> DeleteEtats(etats, station.id)]

(***************************************************************************)
(* Catalogs of the model                                                   *)
(***************************************************************************)
\* at most this many entries in the stage lists of one catalog entry
MaxOuvrages == 3

Ouvrages == {"Degrillage", "Clarificateur"}
EntreesDeListe == Ouvrages \cup {Blanc}

\* the places of a catalog entry that hold a stage list, in the order a
\* types.json file declares them
Emplacements ==
    << <<"filiere_eau", "pretraitement">>,
       <<"filiere_eau", "traitement_primaire">>,
       <<"filiere_eau", "traitement_secondaire">>,
       <<"filiere_eau", "traitement_tertiaire">>,
       <<"racine", "traitement_tertiaire">>,
       <<"racine", "filiere_boue">> >>

\* a draw gives each list entry its place; entries of one place are adjacent
Tirages(n) ==
    {s \in [1..n -> (1..Len(Emplacements)) \X EntreesDeListe] :
        \A i \in 1..(n - 1) : s[i][1] <= s[i + 1][1]}

ItemsDe(tirage, e) ==
    LET f == SelectSeq(tirage, LAMBDA p : p[1] = e)
    IN  [i \in 1..Len(f) |-> f[i][2]]

NonVides(paires) == SelectSeq(paires, LAMBDA p : p[2].v # <<>>)

\* the catalog entry of a draw: a stage is a key of the entry when it has
\* entries; inverse gives the keys of both levels in the opposite order
EntreeCatalogue(tirage, inverse) ==
    LET ordre(s) == IF inverse THEN Renverse(s) ELSE s
        eau == ordre(NonVides(
                 [e \in 1..4 |-> <<Emplacements[e][2], Liste(ItemsDe(tirage, e))>>]))
    IN  ordre(NonVides(
          << <<"filiere_eau", Objet(eau)>>,
             <<"traitement_tertiaire", Liste(ItemsDe(tirage, 5))>>,
             <<"filiere_boue", Liste(ItemsDe(tirage, 6))>> >>))

\* a second process type, the same in every catalog
Lagunage ==
    Objet(<< <<"filiere_eau", Objet(<< <<"pretraitement", Liste(<<"Degrillage">>)>> >>)>> >>)

Catalogue(entree) ==
    << <<"boues_activees", Objet(entree)>>, <<"lagunage", Lagunage>> >>

TypesDemandes == {"boues_activees", "inconnu"}

PasDAppel == [fn |-> "aucun", res |-> Aucun]

Minuit == [jour |-> 2, heure |-> 0]

\* the module globals of utils.py when the module is loaded (lines 57-58)
CacheVide == [charge |-> FALSE, liste |-> <<>>, mtime |-> 0]

\* no process of main.py is part of the specification
PasDeProcessus ==
    /\ stations_mtime = 0
    /\ stations_cache = CacheVide
    /\ programme = "arrete"
    /\ prochain_id = 1
    /\ supprimees = {}

(***************************************************************************)
(* SpecOrdre: the three get_ouvrages_procede on the catalogs of the model  *)
(***************************************************************************)
InitOrdre ==
    /\ \E n \in 0..MaxOuvrages : \E tirage \in Tirages(n) : \E inverse \in BOOLEAN :
           types_data = Catalogue(EntreeCatalogue(tirage, inverse))
    /\ type_procede \in TypesDemandes
    /\ appel = PasDAppel
    /\ etat_ouvrages = <<>>
    /\ stations_json = <<>>
    /\ etat_station_json = FichierAbsent
    /\ horloge = Minuit
    /\ PasDeProcessus

AppelGen ==
    /\ appel' = [fn |-> "gen", res |-> GenOuvragesProcede(type_procede, types_data)]
    /\ UNCHANGED <<types_data, type_procede, horsOrdre>>

AppelMain ==
    /\ appel' = [fn |-> "main", res |-> MainOuvragesProcede(type_procede, types_data)]
    /\ UNCHANGED <<types_data, type_procede, horsOrdre>>

AppelUtils ==
    /\ appel' = [fn |-> "utils", res |-> UtilsOuvragesProcede(type_procede, types_data)]
    /\ UNCHANGED <<types_data, type_procede, horsOrdre>>

NextOrdre == AppelGen \/ AppelMain \/ AppelUtils

SpecOrdre == InitOrdre /\ [][NextOrdre]_vars

(***************************************************************************)
(* C1                                                                      *)
(***************************************************************************)
RECURSIVE PremieresOccurrences(_)
PremieresOccurrences(s) ==
    IF s = <<>> THEN <<>>
    ELSE LET debut == PremieresOccurrences(SubSeq(s, 1, Len(s) - 1))
             x == s[Len(s)]
         IN  IF x \in Elements(debut) THEN debut ELSE Append(debut, x)

\* the equipment names of a stage list, in list order
NomsDe(etape) == SelectSeq(etape.v, LAMBDA x : x \in Ouvrages)

\* the stage list stored at a place of the entry, whatever the key order
EtapeDe(procede_info, e) ==
    LET niveau == IF Emplacements[e][1] = "racine" THEN procede_info
                  ELSE Get(procede_info, "filiere_eau", DictVide).v
    IN  Get(niveau, Emplacements[e][2], ListeVide)

OrdreCanonique(procede_info) ==
    PremieresOccurrences(
        NomsDe(EtapeDe(procede_info, 1)) \o NomsDe(EtapeDe(procede_info, 2))
        \o NomsDe(EtapeDe(procede_info, 3)) \o NomsDe(EtapeDe(procede_info, 5))
        \o NomsDe(EtapeDe(procede_info, 6)))

\* the catalog with the keys of the requested entry, and of its filiere_eau,
\* in the opposite order
RenverseObjet(o) == Objet(Renverse(o.v))
CatalogueRenverse(catalogue, k) ==
    LET info == Val(catalogue, k).v
        eau == IF Dans(info, "filiere_eau")
               THEN Affecter(info, "filiere_eau", RenverseObjet(Val(info, "filiere_eau")))
               ELSE info
    IN  Affecter(catalogue, k, Objet(Renverse(eau)))

MaxCles == 3

\* names that no catalog of the model lists
Orphelins == {"Ancien", "Bassin"}
NomsEtat == Ouvrages \cup Orphelins
EtatsModele == {"en_service", "en_panne"}

\* the state maps of n distinct names
CartesEtats(n) ==
    {m \in [1..n -> NomsEtat \X EtatsModele] :
        \A i, j \in 1..n : m[i][1] = m[j][1] => i = j}

\* catalog entries with at most two names, distinct and all in pretraitement
TiragesReconcile ==
    {t \in Tirages(0) \cup Tirages(1) \cup Tirages(2) :
        /\ \A i \in 1..Len(t) : t[i][1] = 1 /\ t[i][2] # Blanc
        /\ \A i, j \in 1..Len(t) : t[i][2] = t[j][2] => i = j}

\* the operator's answers in the model: next, en_panne
ReponsesModele == {"10", "2"}

InitReconcile ==
    /\ \E tirage \in TiragesReconcile :
           types_data = Catalogue(EntreeCatalogue(tirage, FALSE))
    /\ type_procede \in {"", "boues_activees"}
    /\ appel = PasDAppel
    /\ \E n \in 0..MaxCles : etat_ouvrages \in CartesEtats(n)
    /\ stations_json = <<>>
    /\ etat_station_json = FichierAbsent
    /\ horloge = Minuit
    /\ PasDeProcessus

ReconcilierDiagramme ==
    /\ appel' = [fn |-> "diagramme", arg |-> etat_ouvrages,
                 res |-> DiagrammeOuvrages(etat_ouvrages, type_procede, types_data)]
    /\ UNCHANGED <<types_data, type_procede, etat_ouvrages, fichiers, processus>>

\* the function rewrites the map it was given
ReconcilierModifier ==
    \E choix \in [1..Len(etat_ouvrages) -> ReponsesModele] :
        LET r == ModifierEtatsOuvrages(etat_ouvrages, type_procede, types_data, choix)
        IN  /\ appel' = [fn |-> "modifier", arg |-> etat_ouvrages, choix |-> choix,
                         res |-> r]
            /\ etat_ouvrages' = r.etat_ouvrages
            /\ UNCHANGED <<types_data, type_procede, fichiers, processus>>

NextReconcile == ReconcilierDiagramme \/ ReconcilierModifier

SpecReconcile == InitReconcile /\ [][NextReconcile]_vars

(***************************************************************************)
(* C5, C6                                                                  *)
(***************************************************************************)
\* the order list of the requested type (empty when there is none)
OrdreDemande == Cles(GenOuvragesProcede(type_procede, types_data).d)

\* what the reconciliation of a map against an order list is said to be: the
\* names of the order, each with its state in the map or en_service, then the
\* names of the map that the order does not have, in the order of the map
ReconciliationAttendue(ordre, etats) ==
    [i \in 1..Len(ordre) |-> <<ordre[i], Get(etats, ordre[i], "en_service")>>]
    \o SelectSeq(etats, LAMBDA p : p[1] \notin Elements(ordre))

\* the state map of the equipment list of the diagram
CarteDesOuvrages(ouvrages) ==
    [i \in 1..Len(ouvrages) |-> <<ouvrages[i].nom, ouvrages[i].etat>>]

SansSaisie(n) == [i \in 1..n |-> "10"]

\* the call reconciled a map against an order list, the operator changing nothing
AReconcilie ==
    \/ appel.fn = "diagramme" /\ ~appel.res.erreur
    \/ /\ appel.fn = "modifier"
       /\ OrdreDemande # <<>>
       /\ appel.choix = SansSaisie(Len(appel.choix))

ResultatReconcilie ==
    IF appel.fn = "diagramme" THEN CarteDesOuvrages(appel.res.ouvrages)
    ELSE appel.res.etat_ouvrages

\* C5: reconciling a state map against the order list of the process type
\* yields the names of the order, in order, each with its state of the map or
\* en_service when the map has none, followed by the names of the map that are
\* not in the order, in their order in the map; no name of the map is lost.
C5_Reconciliation ==
    AReconcilie =>
        /\ ResultatReconcilie = ReconciliationAttendue(OrdreDemande, appel.arg)
        /\ Elements(Cles(appel.arg)) \subseteq Elements(Cles(ResultatReconcilie))

\* C6: reconciling the result of a reconciliation against the same order list
\* gives that result again.
C6_Idempotence ==
    AReconcilie =>
        /\ appel.fn = "diagramme" =>
               DiagrammeOuvrages(ResultatReconcilie, type_procede, types_data) = appel.res
        /\ appel.fn = "modifier" =>
               ModifierEtatsOuvrages(ResultatReconcilie, type_procede, types_data,
                                     SansSaisie(Len(ResultatReconcilie))).etat_ouvrages
                   = ResultatReconcilie

\* a map with two orphans ahead of a name of the order was reconciled by
\* modifier_etats_ouvrages, which moved the name of the order to the front
C6_Witness ==
    /\ AReconcilie
    /\ appel.fn = "modifier"
    /\ Len(appel.arg) = 3
    /\ appel.arg[1][1] \in Orphelins /\ appel.arg[2][1] \in Orphelins
    /\ ResultatReconcilie # appel.arg
    /\ ResultatReconcilie[1][1] = appel.arg[3][1]

(***************************************************************************)
(* SpecEtats: the functions of the equipment-state store on the store      *)
(* files that a data directory can hold                                    *)
(***************************************************************************)
\* at most this many snapshots in the history of a station or in a flat list
MaxSnap == 2

CatalogueEtats ==
    Catalogue(<< <<"filiere_eau",
                   Objet(<< <<"pretraitement", Liste(<<"Degrillage">>)>>,
                            <<"traitement_secondaire", Liste(<<"Clarificateur">>)>> >>)>> >>)

StationsModele ==
    << [id |-> "S1", nom |-> "Station 1", type_procede |-> "boues_activees"],
       [id |-> "S2", nom |-> "Station 2", type_procede |-> "lagunage"] >>
IdsModele == {"S1", "S2"}

\* the date fields of a stored snapshot: an update time, or a creation date
DatesStockees == {[date_maj |-> <<1, 1>>], [date_maj |-> <<1, 2>>], [date |-> <<1>>]}

\* its states: under etat_ouvrages, or under the older name etat
EtatsStockes ==
    {[etat_ouvrages |-> << <<"Degrillage", "en_panne">> >>],
     [etat_ouvrages |-> << <<"Ancien", "en_service">>, <<"Degrillage", "en_service">> >>],
     [etat_ouvrages |-> <<>>],
     [etat |-> << <<"Degrillage", "en_panne">> >>]}

InstantanesStockes == {d @@ e : d \in DatesStockees, e \in EtatsStockes}

\* the snapshots of a flat list, as migrate_data writes them
InstantanesPlats ==
    {[station_id |-> id, date |-> <<1>>, date_maj |-> <<1, 1>>,
      etat_ouvrages |-> << <<"Degrillage", "en_panne">> >>] : id \in IdsModele}

Historiques(pool) == UNION {[1..n -> pool] : n \in 0..MaxSnap}

\* what is stored under the id of station S1
DonneesStation ==
    {Liste(h) : h \in Historiques(InstantanesStockes)}
    \cup {Instantane(e) : e \in InstantanesStockes}

HistoriqueS2 ==
    Liste(<< [station_id |-> "S2", date_maj |-> <<1, 1>>,
              etat_ouvrages |-> << <<"Degrillage", "en_maintenance">> >>] >>)

\* the store files: none, a flat list, an object keyed by station id
FichierModele(fichier) ==
    \/ fichier = FichierAbsent
    \/ \E h \in Historiques(InstantanesPlats) : fichier = Liste(h)
    \/ \E d \in DonneesStation :
           \/ fichier = Objet(<< <<"S1", d>> >>)
           \/ fichier = Objet(<< <<"S1", d>>, <<"S2", HistoriqueS2>> >>)

InitEtats ==
    /\ types_data = CatalogueEtats
    /\ type_procede = ""
    /\ appel = PasDAppel
    /\ etat_ouvrages = <<>>
    /\ stations_json = StationsModele
    /\ FichierModele(etat_station_json)
    /\ horloge = Minuit
    /\ PasDeProcessus

AppelCharger ==
    /\ appel' = [fn |-> "charger",
                 res |-> ChargerEtatsStation(etat_station_json, horloge)]
    /\ UNCHANGED <<types_data, type_procede, etat_ouvrages, fichiers, processus>>

\* the history of a station loaded, then saved as loaded
AllerRetour ==
    \E station_id \in IdsModele :
    \E charge \in {Get(ChargerEtatsStation(etat_station_json, horloge), station_id, <<>>)} :
    \E r \in {SauvegarderEtatsStation(charge, station_id, etat_station_json,
                                      stations_json, types_data, horloge)} :
        /\ appel' = [fn |-> "aller_retour", station_id |-> station_id,
                     charge |-> charge, res |-> r.ok]
        /\ etat_station_json' = r.fichier
        /\ UNCHANGED <<types_data, type_procede, etat_ouvrages, stations_json, horloge,
                       processus>>

AppelGetStationEtat ==
    \E station_id \in IdsModele :
        /\ appel' = [fn |-> "get_station_etat", station_id |-> station_id,
                     res |-> GetStationEtat(station_id, etat_station_json)]
        /\ UNCHANGED <<types_data, type_procede, etat_ouvrages, fichiers, processus>>

\* the new-update workflow on a station of the list; precedent is the history
\* loaded, res.etats_station the history in memory when the workflow ends
NouvelleMiseAJour ==
    \E i \in 1..Len(stations_json) :
        LET station == stations_json[i]
            a_modifier == EtatsAModifier(station, etat_station_json, types_data, horloge)
        IN  \E choix \in [1..Len(a_modifier.d) -> ReponsesModele] :
                /\ appel' = [fn |-> "update_new", station_id |-> station.id,
                             choix |-> choix,
                             precedent |-> Get(ChargerEtatsStation(etat_station_json, horloge),
                                               station.id, <<>>),
                             res |-> UpdateOuvrageStateNew(station, choix, etat_station_json,
                                                           types_data, horloge)]
                /\ UNCHANGED <<types_data, type_procede, etat_ouvrages, fichiers, processus>>

NextEtats == AppelCharger \/ AllerRetour \/ AppelGetStationEtat

SpecEtats == InitEtats /\ [][NextEtats]_vars

(***************************************************************************)
(* SpecMiseAJour: the new-update workflow on the same store files          *)
(***************************************************************************)
NextMiseAJour == NouvelleMiseAJour

SpecMiseAJour == InitEtats /\ [][NextMiseAJour]_vars

(***************************************************************************)
(* C4, C7, C9, C10: the store functions                                    *)
(***************************************************************************)
\* the snapshots stored under a key of the file, whatever their wrapping
Stockes(data) == data.v

\* two histories with as many snapshots, each with the same names and states
MemesEtats(h1, h2) ==
    /\ Len(h1) = Len(h2)
    /\ \A k \in 1..Len(h1) :
           Elements(Lire(h1[k], "etat_ouvrages", <<>>))
               = Elements(Lire(h2[k], "etat_ouvrages", <<>>))

Recharge(fichier, station_id) ==
    Get(ChargerEtatsStation(fichier, horloge), station_id, <<>>)

\* C4: a station's history loaded with charger_etats_station and saved back
\* unedited with sauvegarder_etats_station loads again as the same snapshots
\* (as many, each with the same equipment names and states), and a second
\* load-save round trip changes nothing further.
C4_AllerRetour ==
    appel.fn = "aller_retour" =>
        LET recharge == Recharge(etat_station_json, appel.station_id)
            encore == SauvegarderEtatsStation(recharge, appel.station_id,
                          etat_station_json, stations_json, types_data, horloge)
        IN  /\ appel.res
            /\ MemesEtats(appel.charge, recharge)
            /\ MemesEtats(recharge, Recharge(encore.fichier, appel.station_id))

\* C7 in get_station_etat: when every stored snapshot of the station has a
\* date_maj, the state returned is that of the snapshot with the greatest
\* date_maj, the last appended one among those that share it.
C7_DernierEtat ==
    (/\ appel.fn = "get_station_etat"
     /\ appel.res.trouve
     /\ \A e \in Elements(Stockes(Val(etat_station_json.v, appel.station_id))) :
            A(e, "date_maj")) =>
        LET h == Stockes(Val(etat_station_json.v, appel.station_id))
            attendu == h[MaxDernier([i \in 1..Len(h) |-> h[i].date_maj])]
        IN  /\ appel.res.etat_ouvrages = Lire(attendu, "etat_ouvrages", <<>>)
            /\ appel.res.date_maj = attendu.date_maj

\* C9: charger_etats_station returns every accepted shape as station id ->
\* list of snapshots and loses no snapshot: a single snapshot object under a
\* station id comes back as a list of that one snapshot, and a flat list of
\* snapshots carrying their station_id comes back grouped under those ids.
C9_Normalisation ==
    appel.fn = "charger" =>
        /\ etat_station_json.t = "dict" =>
               \A i \in 1..Len(etat_station_json.v) :
                   etat_station_json.v[i][2].t = "dict" =>
                       LET charge == Get(appel.res, etat_station_json.v[i][1], <<>>)
                       IN  /\ Len(charge) = 1
                           /\ Restreint(charge[1], DOMAIN etat_station_json.v[i][2].v[1])
                                  = etat_station_json.v[i][2].v[1]
        /\ etat_station_json.t = "list" =>
               \A id \in IdsModele :
                   LET attendus == SelectSeq(etat_station_json.v,
                                             LAMBDA e : e.station_id = id)
                   IN  Get(appel.res, id, <<>>) = attendus

\* C10: a stored snapshot with its states under etat and without etat_ouvrages
\* is loaded with etat_ouvrages equal to those states.
C10_AliasEtat ==
    (appel.fn = "charger" /\ etat_station_json.t = "dict") =>
        \A i \in 1..Len(etat_station_json.v) :
            LET stockes == Stockes(etat_station_json.v[i][2])
                charge == Get(appel.res, etat_station_json.v[i][1], <<>>)
            IN  \A k \in 1..Len(stockes) :
                    (A(stockes[k], "etat") /\ ~A(stockes[k], "etat_ouvrages")) =>
                        /\ k <= Len(charge)
                        /\ charge[k].etat_ouvrages = stockes[k].etat

(***************************************************************************)
(* C2, C3: the new-update workflow                                         *)
(***************************************************************************)
\* the latest snapshot of a loaded history: greatest date_maj, the last
\* appended one among those that share it
DernierAttendu(h) == h[MaxDernier([i \in 1..Len(h) |-> h[i].date_maj])]

\* the workflow built a new snapshot from the operator's answers
NouvelInstantane == appel.fn = "update_new" /\ appel.res.issue # "retour"

\* the names the operator answered with a state of the menu
NomsChanges ==
    LET station == GetStationById(appel.station_id, stations_json).station
        affiches == AfficherOuvragesAAfficher(
                        EtatsAModifier(station, etat_station_json, types_data, horloge).d,
                        station.type_procede, types_data)
    IN  {affiches[i] : i \in {j \in 1..Len(affiches) : Dans(Menu, appel.choix[j])}}

\* C2: the snapshot built by the new-update workflow has every equipment name
\* of the station's latest snapshot, and every name the operator did not
\* change has the state it had in that latest snapshot.
C2_ClesConservees ==
    (NouvelInstantane /\ appel.precedent # <<>>) =>
        LET dernier == DernierAttendu(appel.precedent).etat_ouvrages
            nouveau == appel.res.etats_station[Len(appel.res.etats_station)].etat_ouvrages
        IN  \A i \in 1..Len(dernier) :
                /\ Dans(nouveau, dernier[i][1])
                /\ dernier[i][1] \notin NomsChanges =>
                       Val(nouveau, dernier[i][1]) = dernier[i][2]

\* C3: when the operator has supplied states in the new-update workflow, the
\* stored history of the station is its previous history followed by exactly
\* one new snapshot whose date_maj is the current time, the earlier snapshots
\* being as they were.
C3_InstantaneAjoute ==
    NouvelInstantane =>
        LET persiste == Recharge(etat_station_json, appel.station_id)
            n == Len(appel.precedent)
        IN  /\ Len(persiste) = n + 1
            /\ SubSeq(persiste, 1, n) = appel.precedent
            /\ persiste[n + 1].date_maj = FormatDateHeure(horloge)

(***************************************************************************)
(* Spec: the menu loop of main.py from its first launch in an empty data   *)
(* directory, and get_station_etat called on the files it leaves           *)
(***************************************************************************)
\* at most this many stations are created
MaxStations == 2
\* the clock runs up to this hour
MaxHeure == 1

\* the ids drawn so far (uuid4: an id is never drawn twice)
IdsTires == {ToString(n) : n \in 1..(prochain_id - 1)}

\* main() has written the two files, save_stations has filled the cache
Init ==
    /\ types_data = CatalogueEtats
    /\ type_procede = ""
    /\ appel = PasDAppel
    /\ etat_ouvrages = <<>>
    /\ stations_json = <<>>
    /\ etat_station_json = Objet(<<>>)
    /\ horloge = Minuit
    /\ stations_mtime = 0
    /\ stations_cache = [charge |-> TRUE, liste |-> <<>>, mtime |-> 0]
    /\ programme = "menu"
    /\ prochain_id = 1
    /\ supprimees = {}

Tick ==
    /\ horloge.heure < MaxHeure
    /\ horloge' = [horloge EXCEPT !.heure = @ + 1]
    /\ UNCHANGED <<types_data, type_procede, appel, etat_ouvrages, stations_json,
                   etat_station_json, processus>>

\* menu choice 1: create_station(), then update_stations_cache()
CreerStation ==
    /\ programme = "menu"
    /\ prochain_id <= MaxStations
    /\ \E procedure_type \in Elements(Cles(types_data)) :
       \E choix \in [1..Len(GenOuvragesProcede(procedure_type, types_data).d)
                        -> ReponsesModele] :
           LET r == CreateStation("Station", procedure_type, choix, ToString(prochain_id),
                                  stations_json, etat_station_json, types_data, horloge)
           IN  /\ appel' = [fn |-> "create_station", res |-> r.res]
               /\ stations_json' = r.stations
               /\ etat_station_json' = r.etats
               /\ stations_mtime' = IF r.res = JsonNull THEN stations_mtime
                                    ELSE stations_mtime + 1
               /\ stations_cache' = UpdateStationsCache(stations_json', stations_mtime')
               /\ prochain_id' = IF r.res = JsonNull THEN prochain_id ELSE prochain_id + 1
    /\ UNCHANGED <<types_data, type_procede, etat_ouvrages, horloge, programme, supprimees>>

\* menu choice 5: delete_station(), a station chosen and the deletion confirmed
SupprimerStation ==
    /\ programme = "menu"
    /\ \E i \in 1..Len(stations_json) :
           LET r == DeleteStation(stations_json[i], stations_json, etat_station_json)
           IN  /\ appel' = [fn |-> "delete_station", station_id |-> stations_json[i].id]
               /\ stations_json' = r.stations
               /\ stations_mtime' = stations_mtime + 1
               /\ etat_station_json' = r.etats
               /\ supprimees' = supprimees \cup {stations_json[i].id}
    /\ UNCHANGED <<types_data, type_procede, etat_ouvrages, horloge, stations_cache,
                   programme, prochain_id>>

\* menu choice 3, then 1: update_ouvrage_state_new() on a station of the list
\* of get_stations_list(); its TypeError reaches main() and ends the process
MettreAJour ==
    /\ programme = "menu"
    /\ stations_cache' = GetStationsList(stations_cache, stations_json, stations_mtime)
    /\ \E i \in 1..Len(stations_cache'.liste) :
           LET station == stations_cache'.liste[i]
               a_modifier == EtatsAModifier(station, etat_station_json, types_data, horloge)
           IN  \E choix \in [1..Len(a_modifier.d) -> ReponsesModele] :
                   LET r == UpdateOuvrageStateNew(station, choix, etat_station_json,
                                                  types_data, horloge)
                   IN  /\ appel' = [fn |-> "update_new", station_id |-> station.id,
                                    choix |-> choix,
                                    precedent |-> Recharge(etat_station_json, station.id),
                                    res |-> r]
                       /\ programme' = IF r.issue = "TypeError" THEN "arrete" ELSE "menu"
    /\ UNCHANGED <<types_data, type_procede, etat_ouvrages, fichiers, stations_mtime,
                   prochain_id, supprimees>>

\* menu choice 6
Quitter ==
    /\ programme = "menu"
    /\ programme' = "arrete"
    /\ appel' = PasDAppel
    /\ UNCHANGED <<types_data, type_procede, etat_ouvrages, fichiers, stations_mtime,
                   stations_cache, prochain_id, supprimees>>

\* main.py launched again: the files exist, the cache of the new process is empty
Relancer ==
    /\ programme = "arrete"
    /\ programme' = "menu"
    /\ stations_cache' = CacheVide
    /\ appel' = PasDAppel
    /\ UNCHANGED <<types_data, type_procede, etat_ouvrages, fichiers, stations_mtime,
                   prochain_id, supprimees>>

\* get_station_etat called for an id drawn so far
ConsulterEtat ==
    \E station_id \in IdsTires :
        /\ appel' = [fn |-> "get_station_etat", station_id |-> station_id,
                     res |-> GetStationEtat(station_id, etat_station_json)]
        /\ UNCHANGED <<types_data, type_procede, etat_ouvrages, fichiers, processus>>

Next ==
    \/ Tick
    \/ CreerStation
    \/ SupprimerStation
    \/ MettreAJour
    \/ Quitter
    \/ Relancer
    \/ ConsulterEtat

Spec == Init /\ [][Next]_vars

(***************************************************************************)
(* C8                                                                      *)
(***************************************************************************)
IdsStations == {stations_json[i].id : i \in 1..Len(stations_json)}

\* C8: once the deletion of a station has been confirmed, the station is not
\* in the stations store, its id is not a key of the equipment-state store,
\* and get_station_etat for it returns the not-found result (None, None),
\* then and at any later time.
C8_SuppressionEnCascade ==
    /\ \A station_id \in supprimees :
           /\ station_id \notin IdsStations
           /\ etat_station_json.t = "dict" /\ ~Dans(etat_station_json.v, station_id)
           /\ GetStationEtat(station_id, etat_station_json) = PasTrouve
    /\ (appel.fn = "get_station_etat" /\ appel.station_id \in supprimees) =>
           appel.res = PasTrouve

\* a deleted station is looked up, after another station was created since
\* and while that one still has its snapshot
C8_Witness ==
    /\ appel.fn = "get_station_etat"
    /\ appel.station_id \in supprimees
    /\ appel.station_id = "1"
    /\ IdsStations = {"2"}
    /\ GetStationEtat("2", etat_station_json).trouve

(***************************************************************************)
(* diagramme_flux.DiagrammeFlux: the layout pipeline.  Lengths are in      *)
(* tenths of a drawing unit.                                               *)
(***************************************************************************)
LargeurBloc == 60
HauteurBloc == 18
Espacement == 20
MargeGauche == 20
EspacementLignes == 30
MargeLimites == 10

\* parser_ouvrages(liste_ouvrages) on a list of dictionaries
ParserOuvrages(liste_ouvrages) ==
    SelectSeq([i \in 1..Len(liste_ouvrages) |->
                  IF A(liste_ouvrages[i], "id") THEN liste_ouvrages[i]
                  ELSE Avec(liste_ouvrages[i], "id", i)],
              LAMBDA ouvrage : A(ouvrage, "nom") /\ A(ouvrage, "etat"))

\* correspondance_ouvrages, for the names of the model
Filiere(nom) ==
    CASE nom = "Degrillage" -> "pretraitement"
      [] nom = "Decanteur primaire" -> "traitement_primaire"
      [] nom = "Clarificateur" -> "traitement_secondaire"
      [] nom = "Rejet" -> "rejet"
      [] nom = "Stockage" -> "stockage"
      [] OTHER -> "autre"

OrdreFilieres ==
    <<"pretraitement", "traitement_primaire", "traitement_secondaire",
      "traitement_tertiaire", "rejet", "traitement_boues", "stockage", "valorisation",
      "epandage", "mise_en_decharge", "incineration", "autre">>

ClasserParFiliere(ouvrages) ==
    [filiere \in Elements(OrdreFilieres) |->
        SelectSeq(ouvrages, LAMBDA ouvrage : Filiere(ouvrage.nom) = filiere)]

\* the loop of calculer_positions from the i-th line on, y being the height
\* of the next line drawn
RECURSIVE PositionsDepuis(_, _, _)
PositionsDepuis(filieres, i, y) ==
    IF i > Len(OrdreFilieres) THEN <<>>
    ELSE LET ouvrages_filiere == filieres[OrdreFilieres[i]]
         IN  IF ouvrages_filiere = <<>> THEN PositionsDepuis(filieres, i + 1, y)
             ELSE [k \in 1..Len(ouvrages_filiere) |->
                      [id |-> ouvrages_filiere[k].id,
                       nom |-> ouvrages_filiere[k].nom,
                       etat |-> ouvrages_filiere[k].etat,
                       x |-> MargeGauche + (k - 1) * (LargeurBloc + Espacement),
                       y |-> y,
                       filiere |-> OrdreFilieres[i]]]
                  \o PositionsDepuis(filieres, i + 1, y - (HauteurBloc + EspacementLignes))

\* the loop with the line of an empty filiere left blank instead of skipped
RECURSIVE PositionsLignesVides(_, _, _)
PositionsLignesVides(filieres, i, y) ==
    IF i > Len(OrdreFilieres) THEN <<>>
    ELSE LET ouvrages_filiere == filieres[OrdreFilieres[i]]
         IN  [k \in 1..Len(ouvrages_filiere) |->
                 [id |-> ouvrages_filiere[k].id,
                  nom |-> ouvrages_filiere[k].nom,
                  etat |-> ouvrages_filiere[k].etat,
                  x |-> MargeGauche + (k - 1) * (LargeurBloc + Espacement),
                  y |-> y,
                  filiere |-> OrdreFilieres[i]]]
             \o PositionsLignesVides(filieres, i + 1, y - (HauteurBloc + EspacementLignes))

CalculerPositionsLignesVides(filieres) == PositionsLignesVides(filieres, 1, 0)

CalculerPositions(filieres) == PositionsDepuis(filieres, 1, 0)

MinDe(S) == CHOOSE m \in S : \A n \in S : m <= n
MaxDe(S) == CHOOSE m \in S : \A n \in S : n <= m

\* the limits of the axes; posees: set_xlim and set_ylim were reached
Limites(posees, x_min, x_max, y_min, y_max) ==
    [posees |-> posees, x_min |-> x_min, x_max |-> x_max, y_min |-> y_min,
     y_max |-> y_max]

LimitesParDefaut == Limites(TRUE, 0, 160, 0 - 160, 20)

\* dessiner_diagramme(ax, ouvrages_positionnes, destination): with no
\* equipment, x_label and y_label are not bound when line 821 reads them
DessinerDiagramme(ouvrages_positionnes) ==
    IF ouvrages_positionnes = <<>>
    THEN [issue |-> "UnboundLocalError", blocs |-> <<>>,
          limites |-> Limites(FALSE, 0, 160, 0 - 160, 20)]
    ELSE LET x_vals == {ouvrages_positionnes[i].x : i \in 1..Len(ouvrages_positionnes)}
             y_vals == {ouvrages_positionnes[i].y : i \in 1..Len(ouvrages_positionnes)}
         IN  [issue |-> "ax", blocs |-> ouvrages_positionnes,
              limites |-> Limites(TRUE,
                                  MinDe(x_vals) - MargeLimites,
                                  MaxDe(x_vals) + LargeurBloc + MargeLimites,
                                  MinDe(y_vals) - MargeLimites,
                                  MaxDe(y_vals) + HauteurBloc + MargeLimites)]

\* parser_ouvrages -> classer_par_filiere -> calculer_positions -> dessiner_diagramme
Pipeline(liste_ouvrages) ==
    DessinerDiagramme(CalculerPositions(ClasserParFiliere(ParserOuvrages(liste_ouvrages))))

(***************************************************************************)
(* diagramme_flux.get_toutes_les_mises_a_jour(station_id)                  *)
(***************************************************************************)
GetToutesLesMisesAJour(station_id, fichier) ==
    IF fichier.t # "dict" THEN <<>>
    ELSE LET mises_a_jour == Get(fichier.v, station_id, ListeVide).v
             tries == TriDecroissant(
                          [i \in 1..Len(mises_a_jour) |->
                              <<Lire(mises_a_jour[i], "date_maj", <<>>), mises_a_jour[i]>>])
         IN  [i \in 1..Len(tries) |-> tries[i][2]]

(***************************************************************************)
(* diagramme_flux.generer_diagramme_station(), the station chosen; choix   *)
(* is the number of the update chosen.  issue: "retour" (no update),       *)
(* "erreur" (an exception reported by the function's except clause),       *)
(* "diagramme" (the figure was drawn)                                      *)
(***************************************************************************)
SansDiagramme(issue) ==
    [issue |-> issue, blocs |-> <<>>, limites |-> Limites(FALSE, 0, 0, 0, 0)]

GenererDiagrammeStation(station, choix, fichier, catalogue) ==
    LET type_demande == Lire(station, "type_procede", "Inconnu")
        mises_a_jour == GetToutesLesMisesAJour(station.id, fichier)
    IN  IF type_demande = "" \/ type_demande = "Inconnu" THEN SansDiagramme("erreur")
        ELSE IF mises_a_jour = <<>> THEN SansDiagramme("retour")
        ELSE LET o == DiagrammeOuvrages(Lire(mises_a_jour[choix], "etat_ouvrages", <<>>),
                                        type_demande, catalogue)
                 dessin == Pipeline(o.ouvrages)
             IN  IF o.erreur THEN SansDiagramme("erreur")
                 ELSE IF dessin.issue # "ax" THEN SansDiagramme("erreur")
                 ELSE [issue |-> "diagramme", blocs |-> dessin.blocs,
                       limites |-> dessin.limites]

(***************************************************************************)
(* SpecCatalogue: the three get_ouvrages_procede on catalog entries whose   *)
(* stages have the shapes a types.json file can give them, and on requests *)
(* that differ from the catalog key by case or by an accent                *)
(***************************************************************************)
\* the shapes of a stage value: a list of names, a mapping name -> default
\* state, a string, a number; "absent": the entry has no such key
Formes == {"list", "dict", "str", "autre", "absent"}

\* the stages of the entry that vary, with their names
EtapesVariables ==
    << <<"pretraitement", <<"Degrillage", "Dessablage">> >>,
       <<"traitement_secondaire", <<"Clarificateur">> >>,
       <<"filiere_boue", <<"Epaississeur">> >> >>

ValeurEtape(forme, noms) ==
    CASE forme = "list" -> Liste(noms)
      [] forme = "dict" -> Objet([i \in 1..Len(noms) |-> <<noms[i], "en_service">>])
      [] forme = "str" -> [t |-> "str", v |-> <<noms[1]>>]
      [] OTHER -> [t |-> "autre", v |-> <<>>]

\* the key of stage e with its value, nothing when the stage is absent
CleEtape(formes, e) ==
    IF formes[e] = "absent" THEN <<>>
    ELSE << <<EtapesVariables[e][1], ValeurEtape(formes[e], EtapesVariables[e][2])>> >>

\* filiere_eau is a key of the entry when one of its stages is
EntreeFormes(formes) ==
    LET eau == CleEtape(formes, 1) \o CleEtape(formes, 2)
    IN  (IF eau = <<>> THEN <<>> ELSE << <<"filiere_eau", Objet(eau)>> >>)
        \o CleEtape(formes, 3)

\* the requests: the key, the key in capitals, the key with an accent, no key
TypesCatalogue == {"boues_activees", "BOUES_ACTIVEES", "boues_activées", "inconnu"}

\* the station whose process type is the request
StationDemandee ==
    [id |-> "S1", nom |-> "Station 1", type_procede |-> type_procede]

\* its history: none, or one snapshot
StocksCatalogue ==
    {Objet(<<>>),
     Objet(<< <<"S1", Liste(<< [station_id |-> "S1", date_maj |-> <<1, 1>>,
                                etat_ouvrages |-> << <<"Degrillage", "en_panne">> >>] >>)>> >>)}

InitCatalogue ==
    /\ \E formes \in [1..Len(EtapesVariables) -> Formes] :
           types_data = Catalogue(EntreeFormes(formes))
    /\ type_procede \in TypesCatalogue
    /\ appel = PasDAppel
    /\ etat_ouvrages = <<>>
    /\ stations_json = <<StationDemandee>>
    /\ etat_station_json \in StocksCatalogue
    /\ horloge = Minuit
    /\ PasDeProcessus

\* the create workflow from step 6 on the requested type when the catalog
\* has it (the operator picks a key of the catalog), nothing personalised
CreerDepuis ==
    /\ prochain_id <= MaxStations
    /\ Dans(types_data, type_procede)
    /\ \E r \in {CreateStation("Station", type_procede,
                               SansSaisie(Len(GenOuvragesProcede(type_procede, types_data).d)),
                               ToString(prochain_id), stations_json, etat_station_json,
                               types_data, horloge)} :
           /\ appel' = [fn |-> "create_station", res |-> r.res, avant |-> fichiers]
           /\ stations_json' = r.stations
           /\ etat_station_json' = r.etats
           /\ prochain_id' = IF r.res = JsonNull THEN prochain_id ELSE prochain_id + 1
    /\ UNCHANGED <<types_data, type_procede, etat_ouvrages, horloge, stations_mtime,
                   stations_cache, programme, supprimees>>

\* the new-update workflow on the station of the request
MettreAJourDepuis ==
    \E a_modifier \in {EtatsAModifier(StationDemandee, etat_station_json, types_data,
                                      horloge)} :
    \E choix \in [1..Len(a_modifier.d) -> ReponsesModele] :
        /\ appel' = [fn |-> "update_new", station_id |-> "S1", choix |-> choix,
                     avant |-> fichiers,
                     res |-> UpdateOuvrageStateNew(StationDemandee, choix,
                                 etat_station_json, types_data, horloge)]
        /\ UNCHANGED <<types_data, type_procede, etat_ouvrages, fichiers, processus>>

\* the diagram workflow on the station of the request
DiagrammeDepuis ==
    \E mises_a_jour \in {GetToutesLesMisesAJour("S1", etat_station_json)} :
    \E choix \in 1..(IF mises_a_jour = <<>> THEN 1 ELSE Len(mises_a_jour)) :
        /\ appel' = [fn |-> "diagramme_station", station_id |-> "S1", choix |-> choix,
                     avant |-> fichiers,
                     res |-> GenererDiagrammeStation(StationDemandee, choix,
                                 etat_station_json, types_data)]
        /\ UNCHANGED <<types_data, type_procede, etat_ouvrages, fichiers, processus>>

NextCatalogue ==
    \/ AppelGen
    \/ AppelMain
    \/ AppelUtils
    \/ CreerDepuis
    \/ MettreAJourDepuis
    \/ DiagrammeDepuis

SpecCatalogue == InitCatalogue /\ [][NextCatalogue]_vars

(***************************************************************************)
(* C11, C12, C14                                                           *)
(***************************************************************************)
AppelOrdre == appel.fn \in {"gen", "main", "utils"}

\* the function of the call, on another request or another catalog
ResultatDe(fn, type_demande, catalogue) ==
    CASE fn = "gen" -> GenOuvragesProcede(type_demande, catalogue)
      [] fn = "main" -> MainOuvragesProcede(type_demande, catalogue)
      [] OTHER -> UtilsOuvragesProcede(type_demande, catalogue)

\* the catalog key that the request designates, case and accents aside
CleDesignee == UtilsProcedeKey(type_procede, types_data)

\* the entry with each of its stages replaced by f of the stage, the stages
\* for which garde is false removed
EntreeTransformee(info, f(_), garde(_)) ==
    LET gardes == SelectSeq(info, LAMBDA p : p[1] = "filiere_eau" \/ garde(p[2]))
    IN  [i \in 1..Len(gardes) |->
            IF gardes[i][1] = "filiere_eau"
            THEN LET eau == SelectSeq(gardes[i][2].v, LAMBDA p : garde(p[2]))
                 IN  <<"filiere_eau",
                       Objet([j \in 1..Len(eau) |-> <<eau[j][1], f(eau[j][2])>>])>>
            ELSE <<gardes[i][1], f(gardes[i][2])>>]

\* a stage in the legacy shape read as the list of its keys
EnListe(etape) == IF etape.t = "dict" THEN Liste(Cles(etape.v)) ELSE etape
Toutes(etape) == TRUE
CatalogueEnListes(catalogue, k) ==
    Affecter(catalogue, k, Objet(EntreeTransformee(Val(catalogue, k).v, EnListe, Toutes)))

\* a stage that is a list or a mapping
BienFormee(etape) == etape.t \in {"list", "dict"}
MemeEtape(etape) == etape
CatalogueSansMalformees(catalogue, k) ==
    Affecter(catalogue, k,
             Objet(EntreeTransformee(Val(catalogue, k).v, MemeEtape, BienFormee)))

\* the stages of the requested entry
EtapesDe(catalogue, k) ==
    LET info == Val(catalogue, k).v
    IN  {Val(Val(info, "filiere_eau").v, e) :
            e \in {x \in {"pretraitement", "traitement_secondaire"} :
                      DansFiliereEau(info, x)}}
        \cup {Val(info, e) : e \in {x \in {"filiere_boue"} : Dans(info, x)}}

\* C11: a request that differs from a catalog key only by letter case or by
\* an accent gets, from each get_ouvrages_procede, the ordered equipment list
\* that the exact key gets.
C11_CasseEtAccents ==
    (AppelOrdre /\ CleDesignee # "") =>
        appel.res = ResultatDe(appel.fn, CleDesignee, types_data)

\* C12: a stage given as a mapping name -> default state contributes its
\* names in the mapping's order: the result is the one obtained when each
\* such stage is the list of its keys.
C12_EtapeHeritee ==
    (AppelOrdre /\ Dans(types_data, type_procede)) =>
        appel.res = ResultatDe(appel.fn, type_procede,
                               CatalogueEnListes(types_data, type_procede))

\* C14: a stage that is neither a list nor a mapping is skipped and nothing
\* else is: the result is the one obtained when the entry does not have that
\* stage.
C14_EtapeMalformee ==
    (AppelOrdre /\ Dans(types_data, type_procede)) =>
        appel.res = ResultatDe(appel.fn, type_procede,
                               CatalogueSansMalformees(types_data, type_procede))

(***************************************************************************)
(* C13                                                                     *)
(***************************************************************************)
\* no key of the catalog is the request, case and accents aside
Inconnu == CleDesignee = ""

\* C13: for a request that matches no catalog entry each get_ouvrages_procede
\* returns None or an empty map; create_station, given no equipment for the
\* chosen type, returns None; update_ouvrage_state_new and
\* generer_diagramme_station on a station of such a type end by a return,
\* with no snapshot built and no diagram drawn; none of them changes
\* stations.json or etat_station.json.
C13_TypeInconnu ==
    /\ (AppelOrdre /\ Inconnu) => (appel.res.nul \/ appel.res.d = <<>>)
    /\ (appel.fn = "create_station"
            /\ GenOuvragesProcede(type_procede, types_data).d = <<>>) =>
           (appel.res = JsonNull /\ fichiers = appel.avant)
    /\ (appel.fn = "update_new" /\ Inconnu) =>
           (appel.res.issue = "retour" /\ fichiers = appel.avant)
    /\ (appel.fn = "diagramme_station" /\ Inconnu) =>
           (appel.res.issue # "diagramme" /\ fichiers = appel.avant)

(***************************************************************************)
(* Writes that fail                                                        *)
(***************************************************************************)
\* a file whose content is not a JSON document (empty, or cut short)
FichierTronque == [t |-> "tronque", v |-> <<>>]

\* how a write with open(path, "w") and json.dump ends: "aucune": it
\* succeeds; "intact": it fails before the file is opened; "tronque": it fails
\* after the file was opened, which has emptied it
Pannes == {"aucune", "intact", "tronque"}

\* create_station.save_json(path, data): the value returned and the file
\* left; tronque is the damaged file
SaveJson(fichier, data, panne, tronque) ==
    [ok |-> panne = "aucune",
     fichier |-> CASE panne = "aucune" -> data
                   [] panne = "intact" -> fichier
                   [] OTHER -> tronque]

\* create_station.create_station(), steps 6 to 11, each of the two writes
\* ending as panne_stations and panne_etats say.  A damaged stations.json is
\* read as the empty list by every load_json, and is that list here.
CreateStationPannes(nom, procedure_type, choix, station_id, stations, etats, catalogue, maintenant, panne_stations, panne_etats) ==
    LET etat_initial == GenOuvragesProcede(procedure_type, catalogue).d
        station_data == [id |-> station_id, nom |-> nom,
                         type_procede |-> procedure_type,
                         date_creation |-> FormatDate(maintenant)]
        etat_data == [station_id |-> station_id, date |-> FormatDate(maintenant),
                      etat_ouvrages |->
                          CustomiserOuvrages(etat_initial, procedure_type, catalogue, choix)]
        etats_data == IF etats.t = "dict" THEN etats.v ELSE <<>>
    IN  IF etat_initial = <<>>
        THEN [res |-> JsonNull, stations |-> stations, etats |-> etats]
        ELSE [res |-> station_id,
              stations |-> SaveJson(stations, Append(stations, station_data),
                                    panne_stations, <<>>).fichier,
              etats |-> SaveJson(etats,
                                 Objet(Affecter(etats_data, station_id,
                                                Liste(<<etat_data>>))),
                                 panne_etats, FichierTronque).fichier]

\* the steps of the write of sauvegarder_etats_station that can fail: the
\* writing of the temporary file, its check, shutil.move
PannesSauvegarde == {"aucune", "temp", "vide", "move"}

\* shutil.move(temp_file, etat_file) is os.rename and, when os.rename raises
\* OSError (it always does on Windows when the target exists), a copy onto
\* the target followed by the removal of the temporary file.  When it raises,
\* the target is as it was ("intact"), emptied or partly written by the copy
\* ("tronque"), or wholly copied, the removal having failed ("remplace").
CiblesApresMove == {"intact", "tronque", "remplace"}

\* utils.sauvegarder_etats_station(etats_station, station_id), lines 346-378
\* ending as panne says; cible is the target left by a shutil.move that raises
SauvegarderAvecPanne(etats_station, station_id, fichier, stations, catalogue, maintenant, panne, cible) ==
    LET r == SauvegarderEtatsStation(etats_station, station_id, fichier, stations,
                                     catalogue, maintenant)
    IN  IF ~r.ok \/ panne = "aucune" THEN r
        ELSE IF panne \in {"temp", "vide"} THEN [ok |-> FALSE, fichier |-> fichier]
        ELSE [ok |-> FALSE,
              fichier |-> CASE cible = "intact" -> fichier
                            [] cible = "tronque" -> FichierTronque
                            [] OTHER -> r.fichier]

(***************************************************************************)
(* SpecEcriture: sauvegarder_etats_station and create_station on a data    *)
(* directory whose writes can fail                                         *)
(***************************************************************************)
InstantaneS1 ==
    [station_id |-> "S1", date_maj |-> <<1, 1>>,
     etat_ouvrages |-> << <<"Degrillage", "en_panne">> >>]

StocksEcriture ==
    {Objet(<<>>), Objet(<< <<"S1", Liste(<<InstantaneS1>>)>> >>)}

InitEcriture ==
    /\ types_data = CatalogueEtats
    /\ type_procede = ""
    /\ appel = PasDAppel
    /\ etat_ouvrages = <<>>
    /\ stations_json = StationsModele
    /\ etat_station_json \in StocksEcriture
    /\ horloge = Minuit
    /\ PasDeProcessus

\* the history of a station of stations.json saved with one more snapshot
SauvegarderHistorique ==
    \E station_id \in {"S1"} :
    \E panne \in PannesSauvegarde :
    \E cible \in IF panne = "move" THEN CiblesApresMove ELSE {"intact"} :
    \E charge \in {Get(ChargerEtatsStation(etat_station_json, horloge), station_id, <<>>)} :
    \E r \in {SauvegarderAvecPanne(
                  Append(charge, [etat_ouvrages |-> << <<"Degrillage", "en_service">> >>,
                                  date_maj |-> FormatDateHeure(horloge)]),
                  station_id, etat_station_json, stations_json, types_data, horloge,
                  panne, cible)} :
        /\ Len(charge) < MaxSnap
        /\ appel' = [fn |-> "sauvegarder", panne |-> panne, cible |-> cible,
                     avant |-> etat_station_json, res |-> r.ok]
        /\ etat_station_json' = r.fichier
        /\ UNCHANGED <<types_data, type_procede, etat_ouvrages, stations_json, horloge,
                       processus>>

\* create_station(), nothing personalised
CreerAvecPannes ==
    /\ prochain_id <= MaxStations
    /\ \E procedure_type \in Elements(Cles(types_data)) :
       \E panne_stations \in Pannes :
       \E panne_etats \in Pannes :
       \E r \in {CreateStationPannes("Station", procedure_type,
                     SansSaisie(Len(GenOuvragesProcede(procedure_type, types_data).d)),
                     ToString(prochain_id), stations_json, etat_station_json,
                     types_data, horloge, panne_stations, panne_etats)} :
           /\ appel' = [fn |-> "create_station", res |-> r.res,
                        panne_stations |-> panne_stations, panne_etats |-> panne_etats]
           /\ stations_json' = r.stations
           /\ etat_station_json' = r.etats
           /\ prochain_id' = prochain_id + 1
    /\ UNCHANGED <<types_data, type_procede, etat_ouvrages, horloge, stations_mtime,
                   stations_cache, programme, supprimees>>

NextEcriture == SauvegarderHistorique \/ CreerAvecPannes

SpecEcriture == InitEcriture /\ [][NextEcriture]_vars

(***************************************************************************)
(* C15, C16                                                                *)
(***************************************************************************)
\* C15: when a step of the write of sauvegarder_etats_station fails (the
\* temporary file, its check, the replacement of the target), the function
\* returns False and etat_station.json has the content it had before the call.
C15_EcritureAtomique ==
    (appel.fn = "sauvegarder" /\ appel.panne # "aucune") =>
        /\ appel.res = FALSE
        /\ etat_station_json = appel.avant

\* C16: create_station returns the id of the new station only when the
\* station record is in stations.json and its initial snapshot is in
\* etat_station.json; when one of the two writes fails it returns None.
C16_CreationNonPersistee ==
    appel.fn = "create_station" =>
        /\ (appel.panne_stations # "aucune" \/ appel.panne_etats # "aucune") =>
               appel.res = JsonNull
        /\ appel.res # JsonNull =>
               /\ \E i \in 1..Len(stations_json) : stations_json[i].id = appel.res
               /\ etat_station_json.t = "dict"
               /\ Dans(etat_station_json.v, appel.res)

(***************************************************************************)
(* C17                                                                     *)
(***************************************************************************)
\* C17: an exception raised inside a menu operation does not end the
\* process: the menu loop goes on, and the process leaves the menu only by the
\* exit choice.
C17_BoucleContinue ==
    [][(programme = "menu" /\ programme' = "arrete") => Quitter]_vars

(***************************************************************************)
(* main.update_ouvrage_state_edit(), the station and the update chosen and *)
(* the operator's answers given.  The call of line 314 passes one argument *)
(* to sauvegarder_etats_station(etats_station, station_id): it raises      *)
(* TypeError before the function runs, and nothing is written.             *)
(***************************************************************************)
\* etats_station.sort(key=lambda x: x.get('date_maj', ''), reverse=True)
TrierParDateMaj(etats_station) ==
    LET tries == TriDecroissant([i \in 1..Len(etats_station) |->
                     <<Lire(etats_station[i], "date_maj", <<>>), etats_station[i]>>])
    IN  [i \in 1..Len(tries) |-> tries[i][2]]

\* the map shown to the operator for the update choix_idx of the sorted list
EtatsAEditer(station, choix_idx, fichier, maintenant) ==
    LET etats_station ==
            TrierParDateMaj(Get(ChargerEtatsStation(fichier, maintenant), station.id, <<>>))
    IN  IF choix_idx \in 1..Len(etats_station)
        THEN Lire(etats_station[choix_idx], "etat_ouvrages", <<>>)
        ELSE <<>>

UpdateOuvrageStateEdit(station, choix_idx, choix, fichier, catalogue, maintenant) ==
    LET etats_station ==
            TrierParDateMaj(Get(ChargerEtatsStation(fichier, maintenant), station.id, <<>>))
        modifie == ModifierEtatsOuvrages(EtatsAEditer(station, choix_idx, fichier, maintenant),
                                         "", catalogue, choix)
    IN  IF etats_station = <<>> \/ choix_idx \notin 1..Len(etats_station)
        THEN [issue |-> "retour", etats_station |-> etats_station]
        ELSE IF ~modifie.modifications
        THEN [issue |-> "retour", etats_station |-> etats_station]
        ELSE [issue |-> "TypeError",
              etats_station |->
                  TrierParDateMaj(
                      [etats_station EXCEPT ![choix_idx] =
                          Avec(Avec(@, "etat_ouvrages", modifie.etat_ouvrages),
                               "date_maj", FormatDateHeure(maintenant))])]

(***************************************************************************)
(* SpecHistorique: the create, new-update and edit-update workflows on a   *)
(* state store in the layout of migrate_data.py (a flat list) or keyed by  *)
(* station id                                                              *)
(***************************************************************************)
\* the snapshots of a station in the file: those stored under its id, or
\* those of a flat list that carry its id
HistoriqueDe(fichier, station_id) ==
    LET DeLaStation(e) == Lire(e, "station_id", JsonNull) = station_id
    IN  IF fichier.t = "list" THEN SelectSeq(fichier.v, DeLaStation)
        ELSE IF fichier.t = "dict" THEN Get(fichier.v, station_id, ListeVide).v
        ELSE <<>>

InitHistorique ==
    /\ types_data = CatalogueEtats
    /\ type_procede = ""
    /\ appel = PasDAppel
    /\ etat_ouvrages = <<>>
    /\ stations_json = StationsModele
    /\ \/ \E h \in Historiques(InstantanesPlats) : etat_station_json = Liste(h)
       \/ etat_station_json \in StocksEcriture
       \/ etat_station_json =
              Objet(<< <<"S1", Liste(<<InstantaneS1>>)>>, <<"S2", HistoriqueS2>> >>)
    /\ horloge = Minuit
    /\ PasDeProcessus

\* create_station(), nothing personalised
CreerHistorique ==
    /\ prochain_id <= MaxStations
    /\ \E procedure_type \in Elements(Cles(types_data)) :
       \E r \in {CreateStation("Station", procedure_type,
                     SansSaisie(Len(GenOuvragesProcede(procedure_type, types_data).d)),
                     ToString(prochain_id), stations_json, etat_station_json,
                     types_data, horloge)} :
           /\ appel' = [fn |-> "create_station", res |-> r.res,
                        avant |-> etat_station_json]
           /\ stations_json' = r.stations
           /\ etat_station_json' = r.etats
           /\ prochain_id' = prochain_id + 1
    /\ UNCHANGED <<types_data, type_procede, etat_ouvrages, horloge, stations_mtime,
                   stations_cache, programme, supprimees>>

\* update_ouvrage_state_new() on a station of stations.json
NouvelleMajHistorique ==
    \E i \in 1..Len(stations_json) :
    \E a_modifier \in {EtatsAModifier(stations_json[i], etat_station_json, types_data,
                                      horloge)} :
    \E choix \in [1..Len(a_modifier.d) -> ReponsesModele] :
    \E r \in {UpdateOuvrageStateNew(stations_json[i], choix, etat_station_json,
                                    types_data, horloge)} :
        /\ appel' = [fn |-> "update_new", station_id |-> stations_json[i].id,
                     res |-> r]
        /\ UNCHANGED <<types_data, type_procede, etat_ouvrages, fichiers, processus>>

\* update_ouvrage_state_edit() on a station of stations.json
ModifierMajHistorique ==
    \E i \in 1..Len(stations_json) :
    \E choix_idx \in 1..MaxSnap :
    \E a_editer \in {EtatsAEditer(stations_json[i], choix_idx, etat_station_json,
                                  horloge)} :
    \E choix \in [1..Len(a_editer) -> ReponsesModele] :
    \E r \in {UpdateOuvrageStateEdit(stations_json[i], choix_idx, choix,
                                     etat_station_json, types_data, horloge)} :
        /\ appel' = [fn |-> "update_edit", station_id |-> stations_json[i].id,
                     res |-> r]
        /\ UNCHANGED <<types_data, type_procede, etat_ouvrages, fichiers, processus>>

NextHistorique == CreerHistorique \/ NouvelleMajHistorique \/ ModifierMajHistorique

SpecHistorique == InitHistorique /\ [][NextHistorique]_vars

(***************************************************************************)
(* C18                                                                     *)
(***************************************************************************)
\* old is the beginning of new, snapshot for snapshot
DebutDe(old, new) ==
    /\ Len(old) <= Len(new)
    /\ \A i \in 1..Len(old) : new[i] = old[i]

\* C18: no create, new-update or edit-update workflow modifies or removes a
\* snapshot of a station's history: after each of them the history of every
\* station begins with the history it had before.
C18_HistoriqueIntact ==
    [][\A station_id \in IdsModele :
           DebutDe(HistoriqueDe(etat_station_json, station_id),
                   HistoriqueDe(etat_station_json', station_id))]_vars

(***************************************************************************)
(* SpecDiagramme: the drawing pipeline of DiagrammeFlux on equipment lists *)
(* and generer_diagramme_station on stored snapshots                       *)
(***************************************************************************)
NomsDiagramme == {"Degrillage", "Clarificateur", "Bassin"}
EtatsDiagramme == {"en_service", "inexistant"}

\* the equipment-state maps of at most MaxSnap equipments
CartesDiagramme ==
    {m \in UNION {[1..n -> NomsDiagramme \X EtatsDiagramme] : n \in 0..MaxSnap} :
        SansDoublon(Cles(m))}

\* the list of equipment records made of a map (lines 1231-1236)
ListeOuvrages(etats) ==
    [i \in 1..Len(etats) |-> [id |-> i, nom |-> etats[i][1], etat |-> etats[i][2]]]

\* station S1 has the map as its only snapshot, station S2 (lagunage: one
\* equipment, Degrillage) has a snapshot where it is in state etat
StockDiagramme(etats, etat) ==
    Objet(<< <<"S1", Liste(<< [etat_ouvrages |-> etats, date_maj |-> <<1, 1>>] >>)>>,
             <<"S2", Liste(<< [etat_ouvrages |-> << <<"Degrillage", etat>> >>,
                               date_maj |-> <<1, 1>>] >>)>> >>)

InitDiagramme ==
    /\ types_data = CatalogueEtats
    /\ type_procede = ""
    /\ appel = PasDAppel
    /\ etat_ouvrages \in CartesDiagramme
    /\ stations_json = StationsModele
    /\ \/ etat_station_json = Objet(<<>>)
       \/ \E etat \in EtatsDiagramme :
              etat_station_json = StockDiagramme(etat_ouvrages, etat)
    /\ horloge = Minuit
    /\ PasDeProcessus

\* the pipeline of lines 1280-1282 on the list made of etat_ouvrages
DessinerListe ==
    /\ appel' = [fn |-> "pipeline", liste |-> ListeOuvrages(etat_ouvrages),
                 res |-> Pipeline(ListeOuvrages(etat_ouvrages))]
    /\ UNCHANGED <<types_data, type_procede, etat_ouvrages, fichiers, processus>>

\* generer_diagramme_station(), a station and its first update chosen
DiagrammeStation ==
    \E i \in 1..Len(stations_json) :
        /\ appel' = [fn |-> "diagramme_station", station_id |-> stations_json[i].id,
                     mises_a_jour |-> GetToutesLesMisesAJour(stations_json[i].id,
                                                             etat_station_json),
                     res |-> GenererDiagrammeStation(stations_json[i], 1,
                                                     etat_station_json, types_data)]
        /\ UNCHANGED <<types_data, type_procede, etat_ouvrages, fichiers, processus>>

NextDiagramme == DessinerListe \/ DiagrammeStation

SpecDiagramme == InitDiagramme /\ [][NextDiagramme]_vars

(***************************************************************************)
(* C19, C20                                                                *)
(***************************************************************************)
\* C19: on an empty equipment list the pipeline parser_ouvrages,
\* classer_par_filiere, calculer_positions, dessiner_diagramme ends without
\* an exception, places no block and sets the default limits (x from 0 to
\* 16, y from -16 to 2).
C19_ListeVide ==
    (appel.fn = "pipeline" /\ appel.liste = <<>>) =>
        /\ appel.res.issue = "ax"
        /\ appel.res.blocs = <<>>
        /\ appel.res.limites = LimitesParDefaut

\* C20: the diagram workflow places no block for an equipment in state
\* inexistant; for the station whose only equipment, Degrillage, is in that
\* state it places no block and the limits are the default ones.
C20_InexistantNonPlace ==
    appel.fn = "diagramme_station" =>
        /\ \A i \in 1..Len(appel.res.blocs) : appel.res.blocs[i].etat # "inexistant"
        /\ (/\ appel.station_id = "S2"
            /\ appel.mises_a_jour # <<>>
            /\ appel.mises_a_jour[1].etat_ouvrages = << <<"Degrillage", "inexistant">> >>)
           => (appel.res.blocs = <<>> /\ appel.res.limites = LimitesParDefaut)

(***************************************************************************)
(* SpecSauvegarde: sauvegarder_etats_station called with a history of the  *)
(* caller's making, on stores that hold the entries of two stations        *)
(***************************************************************************)
NomsSauvegarde == <<"Clarificateur", "Ancien", "Degrillage">>

\* the maps a caller passes: names of NomsSauvegarde in any order, no name
\* twice, at most MaxOuvrages of them
CartesSauvegarde ==
    {[i \in 1..Len(noms) |-> <<noms[i], "en_panne">>] :
        noms \in {n \in UNION {[1..k -> Elements(NomsSauvegarde)] : k \in 0..MaxOuvrages} :
                     SansDoublon(n)}}

\* the entry of S1: a history, an empty history (what a save of [] leaves),
\* a single snapshot object, a single object with its states under etat
StocksSauvegarde ==
    {Objet(<<>>)}
    \cup {Objet(<< <<"S1", d>>, <<"S2", HistoriqueS2>> >>) :
             d \in {Liste(<<InstantaneS1>>), ListeVide,
                    Instantane(Sans(InstantaneS1, "station_id")),
                    Instantane([etat |-> << <<"Degrillage", "en_panne">> >>])}}

InitSauvegarde ==
    /\ types_data = CatalogueEtats
    /\ type_procede = ""
    /\ appel = PasDAppel
    /\ etat_ouvrages \in CartesSauvegarde
    /\ stations_json = StationsModele
    /\ etat_station_json \in StocksSauvegarde
    /\ horloge = Minuit
    /\ PasDeProcessus

\* sauvegarder_etats_station(etats_station, station_id): the history is one
\* snapshot that holds the map etat_ouvrages, or no snapshot
SauvegarderCarte ==
    \E station_id \in IdsModele :
    \E etats_station \in {<<>>, <<[etat_ouvrages |-> etat_ouvrages,
                                  date_maj |-> FormatDateHeure(horloge)]>>} :
    \E r \in {SauvegarderEtatsStation(etats_station, station_id, etat_station_json,
                                      stations_json, types_data, horloge)} :
        /\ appel' = [fn |-> "sauvegarder", station_id |-> station_id,
                     etats_station |-> etats_station, res |-> r.ok]
        /\ etat_station_json' = r.fichier
        /\ UNCHANGED <<types_data, type_procede, etat_ouvrages, stations_json, horloge,
                       processus>>

\* the clock moves between two saves
TickSauvegarde ==
    /\ horloge.heure < MaxHeure
    /\ horloge' = [horloge EXCEPT !.heure = @ + 1]
    /\ UNCHANGED <<types_data, type_procede, appel, etat_ouvrages, stations_json,
                   etat_station_json, processus>>

NextSauvegarde == SauvegarderCarte \/ TickSauvegarde

SpecSauvegarde == InitSauvegarde /\ [][NextSauvegarde]_vars

(***************************************************************************)
(* C21                                                                     *)
(***************************************************************************)
\* the names of cles that ordre lists, in the order of ordre, then the other
\* names of cles in their own order
CanoniquePuisOrphelins(ordre, cles) ==
    SelectSeq(ordre, LAMBDA o : o \in Elements(cles))
    \o SelectSeq(cles, LAMBDA c : c \notin Elements(ordre))

\* the canonical order of the process type of a station of stations.json
OrdreDeLaStation(station_id) ==
    Cles(UtilsOuvragesProcede(
             GetStationById(station_id, stations_json).station.type_procede,
             types_data).d)

\* C21: every snapshot that sauvegarder_etats_station has written has its
\* equipment keys in the canonical order of the station's process type,
\* followed by the names the catalog does not have, in the order they had.
C21_OrdreEcrit ==
    (appel.fn = "sauvegarder" /\ appel.res) =>
        \A k \in 1..Len(Val(etat_station_json.v, appel.station_id).v) :
            LET cles == Cles(Val(etat_station_json.v, appel.station_id).v[k].etat_ouvrages)
            IN  cles = CanoniquePuisOrphelins(OrdreDeLaStation(appel.station_id), cles)

(***************************************************************************)
(* C29                                                                     *)
(***************************************************************************)
\* the equipment keys and states of a stored snapshot
EtatsDe(instantane) == Elements(Lire(instantane, "etat_ouvrages", <<>>))

\* the entry of station_id is in both files with as many snapshots, each
\* with the same equipment keys and states
MemeEntree(avant, apres, station_id) ==
    /\ Dans(apres.v, station_id)
    /\ Len(Val(apres.v, station_id).v) = Len(Val(avant.v, station_id).v)
    /\ \A k \in 1..Len(Val(avant.v, station_id).v) :
           EtatsDe(Val(apres.v, station_id).v[k]) = EtatsDe(Val(avant.v, station_id).v[k])

\* C29: sauvegarder_etats_station(history, S) changes the entry of S only:
\* every other station id that was a key of etat_station.json is still a key
\* after the call, with as many snapshots and the same equipment keys and
\* states in each.
C29_AutresEntrees ==
    [][appel'.fn = "sauvegarder" =>
           \A station_id \in IdsModele \ {appel'.station_id} :
               Dans(etat_station_json.v, station_id) =>
                   MemeEntree(etat_station_json, etat_station_json', station_id)]_vars

(***************************************************************************)
(* SpecLecteur: the writes of the two store files step by step, and a      *)
(* reader of the files that runs between two steps.  appel.phase is the    *)
(* position of the writer: "repos" (no write under way), "stations_ouvert" *)
(* (stations.json opened with mode "w", json.dump not finished),           *)
(* "stations_ecrit", "etats_ouvert" (the same for etat_station.json),      *)
(* "temp" (the temporary file of sauvegarder_etats_station written and     *)
(* checked), "copie" (shutil.move copies the temporary file onto the       *)
(* target).  appel.r holds the contents the writer is writing, appel.lu    *)
(* what the reader last saw.                                               *)
(***************************************************************************)
AuRepos(lu) ==
    [fn |-> "aucun", phase |-> "repos", r |-> [stations |-> <<>>, etats |-> DictVide],
     lu |-> lu]

InitLecteur ==
    /\ types_data = CatalogueEtats
    /\ type_procede = ""
    /\ appel = AuRepos("rien")
    /\ etat_ouvrages = <<>>
    /\ stations_json = <<>>
    /\ etat_station_json = Objet(<<>>)
    /\ horloge = Minuit
    /\ PasDeProcessus

\* create_station() reaches save_json("data/stations.json", stations):
\* open(path, "w") empties the file
CommencerCreation ==
    /\ appel.phase = "repos"
    /\ prochain_id <= MaxStations
    /\ \E procedure_type \in Elements(Cles(types_data)) :
       \E r \in {CreateStation("Station", procedure_type,
                     SansSaisie(Len(GenOuvragesProcede(procedure_type, types_data).d)),
                     ToString(prochain_id), stations_json, etat_station_json,
                     types_data, horloge)} :
           appel' = [fn |-> "create_station", phase |-> "stations_ouvert",
                     r |-> [stations |-> r.stations, etats |-> r.etats], lu |-> appel.lu]
    /\ stations_json' = <<>>
    /\ prochain_id' = prochain_id + 1
    /\ UNCHANGED <<types_data, type_procede, etat_ouvrages, etat_station_json, horloge,
                   stations_mtime, stations_cache, programme, supprimees>>

\* delete_station() reaches save_json("data/stations.json", stations)
CommencerSuppression ==
    /\ appel.phase = "repos"
    /\ \E i \in 1..Len(stations_json) :
           appel' = [fn |-> "delete_station", phase |-> "stations_ouvert",
                     r |-> DeleteStation(stations_json[i], stations_json,
                                         etat_station_json),
                     lu |-> appel.lu]
    /\ stations_json' = <<>>
    /\ UNCHANGED <<types_data, type_procede, etat_ouvrages, etat_station_json, horloge,
                   processus>>

\* utils.save_stations(stations) with the list of the file
CommencerSaveStations ==
    /\ appel.phase = "repos"
    /\ appel' = [fn |-> "save_stations", phase |-> "stations_ouvert",
                 r |-> [stations |-> stations_json, etats |-> etat_station_json],
                 lu |-> appel.lu]
    /\ stations_json' = <<>>
    /\ UNCHANGED <<types_data, type_procede, etat_ouvrages, etat_station_json, horloge,
                   processus>>

\* json.dump ends and stations.json is closed; delete_station writes
\* etat_station.json only when it holds the key of the station
FermerStations ==
    /\ appel.phase = "stations_ouvert"
    /\ stations_json' = appel.r.stations
    /\ appel' = [appel EXCEPT !.phase =
                    IF \/ appel.fn = "save_stations"
                       \/ appel.fn = "delete_station" /\ appel.r.etats = etat_station_json
                    THEN "repos" ELSE "stations_ecrit"]
    /\ UNCHANGED <<types_data, type_procede, etat_ouvrages, etat_station_json, horloge,
                   processus>>

\* save_json("data/etat_station.json", etats_data) of create_station and of
\* delete_station: open(path, "w") empties the file
OuvrirEtats ==
    /\ appel.phase = "stations_ecrit"
    /\ etat_station_json' = FichierTronque
    /\ appel' = [appel EXCEPT !.phase = "etats_ouvert"]
    /\ UNCHANGED <<types_data, type_procede, etat_ouvrages, stations_json, horloge,
                   processus>>

\* sauvegarder_etats_station(etats_station, station_id) has written and
\* checked its temporary file (lines 346-362)
EcrireTemporaire ==
    /\ appel.phase = "repos"
    /\ \E i \in 1..Len(stations_json) :
       \E r \in {SauvegarderEtatsStation(
                     << [etat_ouvrages |-> << <<"Degrillage", "en_panne">> >>,
                         date_maj |-> FormatDateHeure(horloge)] >>,
                     stations_json[i].id, etat_station_json, stations_json, types_data,
                     horloge)} :
           appel' = [fn |-> "sauvegarder_etats_station", phase |-> "temp",
                     r |-> [stations |-> stations_json, etats |-> r.fichier],
                     lu |-> appel.lu]
    /\ UNCHANGED <<types_data, type_procede, etat_ouvrages, fichiers, processus>>

\* shutil.move(temp_file, etat_file), line 365: os.rename puts the temporary
\* file in place of the target, or raises and the file is copied onto the
\* target, which open(dst, "wb") empties first
Remplacer ==
    /\ appel.phase = "temp"
    /\ \/ /\ etat_station_json' = appel.r.etats
          /\ appel' = [appel EXCEPT !.phase = "repos"]
       \/ /\ etat_station_json' = FichierTronque
          /\ appel' = [appel EXCEPT !.phase = "copie"]
    /\ UNCHANGED <<types_data, type_procede, etat_ouvrages, stations_json, horloge,
                   processus>>

\* the write of etat_station.json ends
FermerEtats ==
    /\ appel.phase \in {"etats_ouvert", "copie"}
    /\ etat_station_json' = appel.r.etats
    /\ appel' = [appel EXCEPT !.phase = "repos"]
    /\ UNCHANGED <<types_data, type_procede, etat_ouvrages, stations_json, horloge,
                   processus>>

\* another process reads the two files
Lecteur ==
    /\ appel' = [appel EXCEPT !.lu =
                    IF appel.phase \in {"stations_ouvert", "etats_ouvert", "copie"}
                    THEN "tronque" ELSE "entier"]
    /\ UNCHANGED <<types_data, type_procede, etat_ouvrages, fichiers, processus>>

NextLecteur ==
    \/ CommencerCreation
    \/ CommencerSuppression
    \/ CommencerSaveStations
    \/ FermerStations
    \/ OuvrirEtats
    \/ EcrireTemporaire
    \/ Remplacer
    \/ FermerEtats
    \/ Lecteur

SpecLecteur == InitLecteur /\ [][NextLecteur]_vars

(***************************************************************************)
(* C22                                                                     *)
(***************************************************************************)
\* C22: a reader that runs between two steps of a write of stations.json or
\* of etat_station.json never sees an emptied or partly written file.
C22_LecteurJamaisTronque == appel.lu # "tronque"

(***************************************************************************)
(* C23                                                                     *)
(***************************************************************************)
\* C23: whatever writes of stations.json the menu has made (create_station
\* followed by update_stations_cache, delete_station, save_stations), the
\* next get_stations_list() returns the stations of the file: a deleted
\* station is not listed, a created one is not missing.
C23_ListeAJour ==
    programme = "menu" =>
        GetStationsList(stations_cache, stations_json, stations_mtime).liste = stations_json

\* delete_station has removed station 1 from the file since the cache was
\* filled: the cache still lists it, the file holds station 2 only
C23_Witness ==
    /\ programme = "menu"
    /\ "1" \in supprimees
    /\ stations_cache.charge
    /\ \E i \in 1..Len(stations_cache.liste) : stations_cache.liste[i].id = "1"
    /\ IdsStations = {"2"}

(***************************************************************************)
(* SpecPositions: classer_par_filiere and calculer_positions on the        *)
(* records parser_ouvrages returns                                         *)
(***************************************************************************)
\* names of four lines of the table, and one the table does not have
NomsPositions == {"Degrillage", "Clarificateur", "Rejet", "Stockage", "Bassin"}

\* the lists of at most MaxOuvrages entries; a name can come several times
ListesPositions ==
    UNION {[1..n -> {<<nom, "en_service">> : nom \in NomsPositions}] :
              n \in 0..MaxOuvrages}

InitPositions ==
    /\ types_data = CatalogueEtats
    /\ type_procede = ""
    /\ appel = PasDAppel
    /\ etat_ouvrages \in ListesPositions
    /\ stations_json = StationsModele
    /\ etat_station_json = Objet(<<>>)
    /\ horloge = Minuit
    /\ PasDeProcessus

\* calculer_positions(classer_par_filiere(parser_ouvrages(liste)))
Placer ==
    /\ \E records \in {ParserOuvrages(ListeOuvrages(etat_ouvrages))} :
           appel' = [fn |-> "calculer_positions", records |-> records,
                     res |-> CalculerPositions(ClasserParFiliere(records))]
    /\ UNCHANGED <<types_data, type_procede, etat_ouvrages, fichiers, processus>>

NextPositions == Placer

SpecPositions == InitPositions /\ [][NextPositions]_vars

(***************************************************************************)
(* C24                                                                     *)
(***************************************************************************)
\* the number of the line of a filiere: the non-empty lines before it
RangDeLigne(records, filiere) ==
    Cardinality({j \in 1..Len(OrdreFilieres) :
        /\ \E i \in 1..Len(OrdreFilieres) : OrdreFilieres[i] = filiere /\ j < i
        /\ \E r \in 1..Len(records) : Filiere(records[r].nom) = OrdreFilieres[j]})

\* the number of the column of the r-th record: the records of its line
\* that come before it
RangDansLigne(records, r) ==
    Cardinality({q \in 1..(r - 1) : Filiere(records[q].nom) = Filiere(records[r].nom)})

\* C24: calculer_positions(classer_par_filiere(records)) places every record
\* once, in the line of its filiere (autre for a name the table does not
\* have): the r-th non-empty line is at y = -r x (block height + line
\* spacing), the k-th record of a line at x = left margin + k x (block width
\* + gap); no two blocks have the same position.
C24_Positions ==
    appel.fn = "calculer_positions" =>
        /\ Len(appel.res) = Len(appel.records)
        /\ \A r \in 1..Len(appel.records) :
               \E b \in 1..Len(appel.res) :
                   /\ appel.res[b].id = appel.records[r].id
                   /\ appel.res[b].nom = appel.records[r].nom
                   /\ appel.res[b].filiere = Filiere(appel.records[r].nom)
                   /\ appel.res[b].y =
                          0 - RangDeLigne(appel.records, Filiere(appel.records[r].nom))
                                  * (HauteurBloc + EspacementLignes)
                   /\ appel.res[b].x =
                          MargeGauche + RangDansLigne(appel.records, r)
                                            * (LargeurBloc + Espacement)
        /\ \A b, c \in 1..Len(appel.res) :
               (appel.res[b].x = appel.res[c].x /\ appel.res[b].y = appel.res[c].y) => b = c

\* three records placed: two side by side in the line pretraitement and one
\* in autre, which is the second line drawn, the lines between being empty
C24_Witness ==
    /\ appel.fn = "calculer_positions"
    /\ Len(appel.res) = 3
    /\ \E b, c, d \in 1..3 :
           /\ appel.res[b].filiere = "pretraitement"
           /\ appel.res[c].filiere = "pretraitement" /\ appel.res[c].x > appel.res[b].x
           /\ appel.res[d].filiere = "autre" /\ appel.res[d].y < 0

(***************************************************************************)
(* diagramme_flux.DiagrammeFlux.dessiner_fleches(ax, ouvrages_positionnes) *)
(* An arrow is its two ends: de (xytext) and vers (xy).                    *)
(***************************************************************************)
Fleche(x1, y1, x2, y2) == [de |-> <<x1, y1>>, vers |-> <<x2, y2>>]

\* _charger_configuration_types(): filiere_eau and filiere_boue of the entry
\* of the station's type, {} and [] when the catalog has no such key
ChargerConfigurationTypes(type_station, catalogue) ==
    IF type_station # "" /\ Dans(catalogue, type_station)
    THEN [filiere_eau |-> Get(Val(catalogue, type_station).v, "filiere_eau", DictVide),
          filiere_boue |-> Get(Val(catalogue, type_station).v, "filiere_boue", ListeVide)]
    ELSE [filiere_eau |-> DictVide, filiere_boue |-> ListeVide]

\* nom in ouvrages_par_nom
ParNom(blocs, nom) == \E i \in 1..Len(blocs) : blocs[i].nom = nom

\* ouvrages_par_nom[nom]: x and y are the centre of the last block of that
\* name (lines 388-397)
OuvragesParNom(blocs, nom) ==
    LET dernier == blocs[MaxDe({i \in 1..Len(blocs) : blocs[i].nom = nom})]
    IN  [x |-> dernier.x + LargeurBloc \div 2, y |-> dernier.y + HauteurBloc \div 2]

FilieresEauOrdre ==
    <<"pretraitement", "traitement_primaire", "traitement_secondaire",
      "traitement_tertiaire", "rejet">>

DeLaFiliere(blocs, filiere) == SelectSeq(blocs, LAMBDA b : b.filiere = filiere)

\* part 1, lines 441-478: between neighbours of a line, not for a line whose
\* name contains 'boue'
FlechesDeLigne(blocs) ==
    {Fleche(b.x + LargeurBloc, b.y + HauteurBloc \div 2, c.x, c.y + HauteurBloc \div 2) :
        <<b, c>> \in {bc \in Elements(blocs) \X Elements(blocs) :
            /\ bc[1].filiere = bc[2].filiere
            /\ bc[1].filiere # "traitement_boues"
            /\ bc[1].x < bc[2].x
            /\ ~\E d \in Elements(blocs) :
                   d.filiere = bc[1].filiere /\ bc[1].x < d.x /\ d.x < bc[2].x}}

\* part 2, lines 480-521: the arrow from line i of the water order to line
\* i + 1, drawn when both have a block
FlecheEntreFilieres(blocs, i) ==
    LET courante == DeLaFiliere(blocs, FilieresEauOrdre[i])
        suivante == DeLaFiliere(blocs, FilieresEauOrdre[i + 1])
        source == CHOOSE b \in Elements(courante) : \A c \in Elements(courante) : c.x <= b.x
        cible == CHOOSE b \in Elements(suivante) : \A c \in Elements(suivante) : b.x <= c.x
    IN  IF courante = <<>> \/ suivante = <<>> THEN <<>>
        ELSE << Fleche(source.x + LargeurBloc, source.y + HauteurBloc \div 2,
                       cible.x, cible.y + HauteurBloc \div 2) >>

\* part 3, lines 523-560: the arrow of one sludge pair of filiere_eau
FlecheBoues(blocs, filiere_eau, boue_type) ==
    LET config == Val(filiere_eau.v, boue_type).v
        source_nom == Get(config, "source", JsonNull)
        destination_nom == Get(config, "destination", JsonNull)
        source == OuvragesParNom(blocs, source_nom)
        destination == OuvragesParNom(blocs, destination_nom)
    IN  IF ~Dans(filiere_eau.v, boue_type) THEN <<>>
        ELSE IF ~(ParNom(blocs, source_nom) /\ ParNom(blocs, destination_nom)) THEN <<>>
        ELSE << [type |-> boue_type, source |-> source_nom,
                 destination |-> destination_nom,
                 de |-> <<source.x + LargeurBloc \div 2, source.y>>,
                 vers |-> <<destination.x + LargeurBloc \div 2,
                            destination.y + HauteurBloc>>] >>

\* part 3.2, lines 583-617: from the first name of filiere_boue to each of
\* the others
FlechesFiliereBoue(blocs, filiere_boue) ==
    IF Len(filiere_boue.v) <= 1 \/ ~ParNom(blocs, filiere_boue.v[1]) THEN {}
    ELSE {Fleche(OuvragesParNom(blocs, filiere_boue.v[1]).x + LargeurBloc \div 2,
                 OuvragesParNom(blocs, filiere_boue.v[1]).y,
                 OuvragesParNom(blocs, filiere_boue.v[k]).x + LargeurBloc \div 2,
                 OuvragesParNom(blocs, filiere_boue.v[k]).y) :
             k \in {j \in 2..Len(filiere_boue.v) : ParNom(blocs, filiere_boue.v[j])}}

DessinerFleches(ouvrages_positionnes, config) ==
    IF ouvrages_positionnes = <<>>
    THEN [lignes |-> {}, inter |-> <<>>, boues |-> <<>>, filiere_boue |-> {}]
    ELSE [lignes |-> FlechesDeLigne(ouvrages_positionnes),
          inter |-> FlecheEntreFilieres(ouvrages_positionnes, 1)
                    \o FlecheEntreFilieres(ouvrages_positionnes, 2)
                    \o FlecheEntreFilieres(ouvrages_positionnes, 3)
                    \o FlecheEntreFilieres(ouvrages_positionnes, 4),
          boues |-> FlecheBoues(ouvrages_positionnes, config.filiere_eau,
                                "boues_primaires")
                    \o FlecheBoues(ouvrages_positionnes, config.filiere_eau,
                                   "boues_secondaires"),
          filiere_boue |-> FlechesFiliereBoue(ouvrages_positionnes, config.filiere_boue)]

(***************************************************************************)
(* SpecFleches: dessiner_fleches on the blocks calculer_positions returns, *)
(* the catalog entry of the station's type with or without a sludge pair   *)
(***************************************************************************)
NomsFleches == {"Degrillage", "Decanteur primaire", "Clarificateur", "Rejet", "Stockage"}

ListesFleches ==
    UNION {[1..n -> {<<nom, "en_service">> : nom \in NomsFleches}] : n \in 0..MaxOuvrages}

\* the sludge pairs of the model: the destination Silo is never a block
PairesBoues ==
    {Objet(<< <<"source", "Decanteur primaire">>, <<"destination", destination>>,
              <<"etiquette", "Boues primaires">> >>) : destination \in {"Stockage", "Silo"}}

EntreeFleches(paires) ==
    << <<"filiere_eau",
         Objet(<< <<"pretraitement", Liste(<<"Degrillage">>)>>,
                  <<"traitement_primaire", Liste(<<"Decanteur primaire">>)>>,
                  <<"traitement_secondaire", Liste(<<"Clarificateur">>)>> >> \o paires)>>,
       <<"filiere_boue", Liste(<<"Stockage", "Rejet">>)>> >>

InitFleches ==
    /\ \/ types_data = Catalogue(EntreeFleches(<<>>))
       \/ \E paire \in PairesBoues :
              types_data = Catalogue(EntreeFleches(<< <<"boues_primaires", paire>> >>))
    /\ type_procede = "boues_activees"
    /\ appel = PasDAppel
    /\ etat_ouvrages \in ListesFleches
    /\ stations_json = StationsModele
    /\ etat_station_json = Objet(<<>>)
    /\ horloge = Minuit
    /\ PasDeProcessus

\* DiagrammeFlux(type_station).dessiner_fleches on the positioned list
Flecher ==
    /\ \E blocs \in {CalculerPositions(ClasserParFiliere(
                         ParserOuvrages(ListeOuvrages(etat_ouvrages))))} :
           appel' = [fn |-> "dessiner_fleches", blocs |-> blocs,
                     res |-> DessinerFleches(blocs,
                                 ChargerConfigurationTypes(type_procede, types_data))]
    /\ UNCHANGED <<types_data, type_procede, etat_ouvrages, fichiers, processus>>

NextFleches == Flecher

SpecFleches == InitFleches /\ [][NextFleches]_vars

(***************************************************************************)
(* C25, C26                                                                *)
(***************************************************************************)
\* the lines of the water order that have a block, in that order
LignesPeuplees(blocs) ==
    SelectSeq(FilieresEauOrdre, LAMBDA f : DeLaFiliere(blocs, f) # <<>>)

\* C25: dessiner_fleches draws one arrow from each populated line of the
\* water order to the next populated one, empty lines between them skipped,
\* from the right edge of the rightmost block to the left edge of the
\* leftmost block: p populated lines give p - 1 such arrows.
C25_FlechesEntreLignes ==
    appel.fn = "dessiner_fleches" =>
        LET peuplees == LignesPeuplees(appel.blocs)
        IN  /\ Len(appel.res.inter) = IF peuplees = <<>> THEN 0 ELSE Len(peuplees) - 1
            /\ \A k \in 1..(Len(peuplees) - 1) :
                   \E a \in Elements(appel.res.inter) :
                       /\ a.de[1] = MaxDe({b.x : b \in Elements(
                                        DeLaFiliere(appel.blocs, peuplees[k]))}) + LargeurBloc
                       /\ a.vers[1] = MinDe({b.x : b \in Elements(
                                          DeLaFiliere(appel.blocs, peuplees[k + 1]))})

\* C26: for a sludge pair of the catalog entry dessiner_fleches draws an
\* arrow exactly when both names are blocks, from the middle of the bottom
\* edge of the source block (x + width/2, y) to the middle of the top edge of
\* the destination block (x + width/2, y + height).
C26_FlechesBoues ==
    appel.fn = "dessiner_fleches" =>
        \A boue_type \in {"boues_primaires", "boues_secondaires"} :
            LET filiere_eau == ChargerConfigurationTypes(type_procede, types_data).filiere_eau
                config == Val(filiere_eau.v, boue_type).v
                tracees == SelectSeq(appel.res.boues, LAMBDA a : a.type = boue_type)
            IN  IF /\ Dans(filiere_eau.v, boue_type)
                   /\ ParNom(appel.blocs, Val(config, "source"))
                   /\ ParNom(appel.blocs, Val(config, "destination"))
                THEN /\ Len(tracees) = 1
                     /\ \E s, d \in Elements(appel.blocs) :
                            /\ s.nom = Val(config, "source")
                            /\ d.nom = Val(config, "destination")
                            /\ tracees[1].de = <<s.x + LargeurBloc \div 2, s.y>>
                            /\ tracees[1].vers =
                                   <<d.x + LargeurBloc \div 2, d.y + HauteurBloc>>
                ELSE tracees = <<>>

(***************************************************************************)
(* C27                                                                     *)
(***************************************************************************)
\* the names a get_ouvrages_procede returns, none when it returns None
NomsRendus(r) == IF r.nul THEN <<>> ELSE Cles(r.d)

\* C27: for a key the catalog has exactly as written,
\* gen_station.get_ouvrages_procede, main.get_ouvrages_procede and
\* utils.get_ouvrages_procede return the same equipment names in the same
\* order; they read the tertiary stage at the same place of the entry.
C27_TroisImplementations ==
    (AppelOrdre /\ Dans(types_data, type_procede)) =>
        /\ NomsRendus(appel.res) = NomsRendus(GenOuvragesProcede(type_procede, types_data))
        /\ NomsRendus(appel.res) = NomsRendus(MainOuvragesProcede(type_procede, types_data))
        /\ NomsRendus(appel.res) = NomsRendus(UtilsOuvragesProcede(type_procede, types_data))

(***************************************************************************)
(* C28                                                                     *)
(***************************************************************************)
\* C28: a create_station that completes appends one record to stations.json
\* and stores one snapshot for the new station, every record stored before
\* and the snapshots of every other station stay as they were, whether
\* etat_station.json was keyed by station id or a flat list; a create_station
\* that returns None leaves both files as they were.
C28_CreationSeule ==
    [][appel'.fn = "create_station" =>
           IF appel'.res = JsonNull
           THEN stations_json' = stations_json /\ etat_station_json' = etat_station_json
           ELSE /\ Len(stations_json') = Len(stations_json) + 1
                /\ DebutDe(stations_json, stations_json')
                /\ stations_json'[Len(stations_json')].id = appel'.res
                /\ Len(HistoriqueDe(etat_station_json', appel'.res)) = 1
                /\ \A station_id \in IdsModele :
                       HistoriqueDe(etat_station_json', station_id)
                           = HistoriqueDe(etat_station_json, station_id)]_vars

(***************************************************************************)
(* C30                                                                     *)
(***************************************************************************)
\* C30: whatever stations were created and deleted since the stores were
\* empty, every station of stations.json has a non-empty list of snapshots
\* under its id in etat_station.json, and every key of etat_station.json is
\* the id of a station of stations.json.
C30_StocksCoherents ==
    /\ etat_station_json.t = "dict"
    /\ \A station_id \in IdsStations :
           /\ Dans(etat_station_json.v, station_id)
           /\ Val(etat_station_json.v, station_id).t = "list"
           /\ Val(etat_station_json.v, station_id).v # <<>>
    /\ \A station_id \in Elements(Cles(etat_station_json.v)) : station_id \in IdsStations

\* two stations created, the first one just deleted: the second is in both
\* stores, the first in neither
C30_Witness ==
    /\ appel.fn = "delete_station"
    /\ appel.station_id = "1"
    /\ IdsStations = {"2"}
    /\ Cles(etat_station_json.v) = <<"2">>
    /\ Len(Val(etat_station_json.v, "2").v) = 1

====
